---- MODULE Spec2Model ----
(***************************************************************************)
(* The background scheduler of News_agent (scheduler.py): the persisted    *)
(* schedule record (save_config / load_config over a JSON file), the       *)
(* timer thread with its own event loop (start / stop / restart /          *)
(* scheduler_loop / run_analysis), and the start-up hook                   *)
(* initialize_scheduler.                                                   *)
(*                                                                         *)
(* Two specifications share the state:                                     *)
(*   SpecStore  the persisted record: save_config, load_config and a       *)
(*              process restart running initialize_scheduler;              *)
(*   Spec       the timer: a clock in seconds, the check cycle, the        *)
(*              scheduled run, and the controlling thread calling          *)
(*              start / stop / restart / enable_schedule.                  *)
(***************************************************************************)
EXTENDS Integers, Sequences, FiniteSets, TLC

VARIABLES
    mem,         \* self.enabled, self.hour, self.minute, self.timezone, self.config
    disk,        \* the file self.config_file: whether it exists, and its text as JSON tokens
    thread,      \* self.thread: 0 is None, otherwise the id of the latest Thread object
    loop,        \* self.loop: 0 is None, otherwise the id of the event loop last published
    stop_event,  \* self.stop_event.is_set()
    th,          \* the Thread objects ever created: position in run_scheduler, due time
    loopSt,      \* the event loops ever created: "none", "open", "stopping", "closed"
    now,         \* the clock, in ticks of 5 seconds from 06:59:55 UTC
    ctl,         \* the controlling thread: idle, or blocked in stop()'s join
    ret,         \* history: the last completed call of the controlling thread
    lastGood,    \* history: the record of the last successful save_config or load_config
    lastSaved,   \* history: the record on disk when the last write was a successful save_config
    fires,       \* history: the orchestrator invocations made by the check cycle
    runs,        \* history: how many scheduled runs ended completed / failed / abandoned / skipped, and error notifications sent
    minuteLog,   \* history: the calendar minute that just ended
    run,         \* one call of run_complete_workflow: its arguments, position and effects
    outputs,     \* the outputs directory and the runs that write to it at the same time
    race         \* a save_config or load_config and a poll of the check cycle, statement by statement

vars == <<mem, disk, thread, loop, stop_event, th, loopSt, now, ctl, ret,
          lastGood, lastSaved, fires, runs, minuteLog, run, outputs, race>>

-----------------------------------------------------------------------------
(* Bounds of the model. *)

MaxThreads == 3     \* Thread objects created in one behaviour
MaxTime == 40       \* clock ticks modelled by SpecCycle (one tick is 5 seconds)
LifeTime == 5       \* clock ticks modelled by Spec
StopTime == 14      \* clock ticks modelled by SpecStop
MaxLag == 1         \* ticks a due step of the check cycle may be late
MaxRun == 2         \* ticks a scheduled run may last
MaxWritten == 3     \* tokens a failing json.dump may have written before it failed
MaxCalls == 2       \* calls the controlling thread makes in one behaviour of Spec
MaxBoards == 2      \* boards in the board mapping of a run
MaxOverlap == 2     \* runs that may be in progress at the same time
MaxSecond == 3      \* clock seconds modelled by SpecOutputs

-----------------------------------------------------------------------------
(* Python values: int, bool, str, None and dict (an ordered list of        *)
(* key/value pairs), tagged so that 7, "7" and True stay distinct.         *)

PyInt(n) == [t |-> "int", i |-> n, s |-> "", d |-> <<>>]
PyBool(b) == [t |-> "bool", i |-> IF b THEN 1 ELSE 0, s |-> "", d |-> <<>>]
PyStr(x) == [t |-> "str", i |-> 0, s |-> x, d |-> <<>>]
PyNone == [t |-> "none", i |-> 0, s |-> "", d |-> <<>>]
PyDict(pairs) == [t |-> "dict", i |-> 0, s |-> "", d |-> pairs]

\* bool(v): Python truthiness, as `if self.enabled:` evaluates it
Truthy(v) ==
    CASE v.t = "int" -> v.i # 0
      [] v.t = "bool" -> v.i = 1
      [] v.t = "str" -> v.s # ""
      [] v.t = "dict" -> v.d # <<>>
      [] OTHER -> FALSE

\* v == n for an int n: True == 1 in Python, "7" == 7 is False
EqInt(v, n) == v.t \in {"int", "bool"} /\ v.i = n

\* f"{v:02d}" succeeds for int and bool and raises ValueError/TypeError otherwise
FormatD(v) == v.t \in {"int", "bool"}

\* d.get(key, default) on the pairs of a dict
RECURSIVE GetFrom(_, _, _, _)
GetFrom(pairs, key, default, j) ==
    IF j > Len(pairs) THEN default
    ELSE IF pairs[j].k = key THEN pairs[j].v
    ELSE GetFrom(pairs, key, default, j + 1)

Get(pairs, key, default) == GetFrom(pairs, key, default, 1)

\* int(v): the int itself, 0 or 1 for a bool, the number a numeric string
\* spells; TypeError or ValueError for None, a dict and other strings
py_int(v) ==
    CASE v.t \in {"int", "bool"} -> [ok |-> TRUE, n |-> v.i]
      [] v.t = "str" /\ v.s \in {"7"} -> [ok |-> TRUE, n |-> 7]
      [] OTHER -> [ok |-> FALSE, n |-> 0]

\* d[key] = v: replaces the value of an existing key in place, else appends
Put(pairs, key, v) ==
    IF \E j \in 1..Len(pairs) : pairs[j].k = key
    THEN [j \in 1..Len(pairs) |-> IF pairs[j].k = key THEN [k |-> key, v |-> v] ELSE pairs[j]]
    ELSE Append(pairs, [k |-> key, v |-> v])

-----------------------------------------------------------------------------
(* JSON text, as its sequence of tokens.                                   *)

Quote(x) == "\"" \o x \o "\""

IntTokens == 0..59

StrUniverse ==
    {"enabled", "hour", "minute", "timezone", "config",
     "subreddit_config", "top_comments",
     "Etc/UTC", "Europe/Warsaw", "Mars/Phobos", "LocalLLaMA:10", "", "7",
     "time_filter", "replies_per_comment", "model", "system_prompt", "user_prompt",
     "send_to_telegram", "generate_tts", "voice_name",
     "week", "day", "gemini-2.5-pro", "gemini-2.5-flash", "Be brief", "Top news"}

\* str(n) for the ints, and the quoted form of the strings, that occur
IntText == [n \in IntTokens |-> ToString(n)]
StrText == [x \in StrUniverse |-> Quote(x)]
IntToks == {IntText[n] : n \in IntTokens}
StrToks == {StrText[x] : x \in StrUniverse}

IsIntTok(tok) == tok \in IntToks
TokInt(tok) == CHOOSE n \in IntTokens : IntText[n] = tok
IsStrTok(tok) == tok \in StrToks
TokStr(tok) == CHOOSE x \in StrUniverse : StrText[x] = tok

\* json.dump(v, f): the tokens written for v
RECURSIVE JsonDump(_), DumpMembers(_, _)
JsonDump(v) ==
    CASE v.t = "int" -> <<IntText[v.i]>>
      [] v.t = "bool" -> <<IF v.i = 1 THEN "true" ELSE "false">>
      [] v.t = "str" -> <<StrText[v.s]>>
      [] v.t = "none" -> <<"null">>
      [] v.t = "dict" -> <<"{">> \o DumpMembers(v.d, 1) \o <<"}">>

DumpMembers(pairs, j) ==
    IF j > Len(pairs) THEN <<>>
    ELSE <<StrText[pairs[j].k], ":">> \o JsonDump(pairs[j].v)
         \o (IF j < Len(pairs) THEN <<",">> ELSE <<>>)
         \o DumpMembers(pairs, j + 1)

\* json.load(f): a recursive-descent parse of the tokens; ok is FALSE where
\* json.load raises JSONDecodeError
ParseFail == [ok |-> FALSE, v |-> PyNone, next |-> 0]

RECURSIVE ParseValue(_, _), ParseMembers(_, _, _)
ParseValue(toks, j) ==
    IF j > Len(toks) THEN ParseFail
    ELSE LET tok == toks[j] IN
         IF tok = "true" THEN [ok |-> TRUE, v |-> PyBool(TRUE), next |-> j + 1]
         ELSE IF tok = "false" THEN [ok |-> TRUE, v |-> PyBool(FALSE), next |-> j + 1]
         ELSE IF tok = "null" THEN [ok |-> TRUE, v |-> PyNone, next |-> j + 1]
         ELSE IF IsIntTok(tok) THEN [ok |-> TRUE, v |-> PyInt(TokInt(tok)), next |-> j + 1]
         ELSE IF IsStrTok(tok) THEN [ok |-> TRUE, v |-> PyStr(TokStr(tok)), next |-> j + 1]
         ELSE IF tok = "{" THEN
              IF j + 1 <= Len(toks) /\ toks[j + 1] = "}"
              THEN [ok |-> TRUE, v |-> PyDict(<<>>), next |-> j + 2]
              ELSE ParseMembers(toks, j + 1, <<>>)
         ELSE ParseFail

ParseMembers(toks, j, acc) ==
    IF j + 1 > Len(toks) \/ ~IsStrTok(toks[j]) \/ toks[j + 1] # ":" THEN ParseFail
    ELSE LET r == ParseValue(toks, j + 2) IN
         IF ~r.ok \/ r.next > Len(toks) THEN ParseFail
         ELSE LET acc2 == Put(acc, TokStr(toks[j]), r.v) IN
              IF toks[r.next] = "}"
              THEN [ok |-> TRUE, v |-> PyDict(acc2), next |-> r.next + 1]
              ELSE IF toks[r.next] = ","
              THEN ParseMembers(toks, r.next + 1, acc2)
              ELSE ParseFail

JsonLoad(toks) ==
    LET r == ParseValue(toks, 1) IN
    IF r.ok /\ r.next = Len(toks) + 1
    THEN [ok |-> TRUE, v |-> r.v]
    ELSE [ok |-> FALSE, v |-> PyNone]

-----------------------------------------------------------------------------
(* The schedule record.                                                    *)

\* SimpleScheduler.__init__: the five fields as constructed
Defaults ==
    [enabled |-> PyBool(FALSE), hour |-> PyInt(9), minute |-> PyInt(0),
     timezone |-> PyStr("Etc/UTC"), config |-> PyDict(<<>>)]

\* A `data` dict that stores the minute under "hour" and the hour under "minute".
DataOf_swapped(m) ==
    PyDict(<<[k |-> "enabled", v |-> m.enabled], [k |-> "hour", v |-> m.minute],
             [k |-> "minute", v |-> m.hour], [k |-> "timezone", v |-> m.timezone],
             [k |-> "config", v |-> m.config]>>)

\* save_config's `data = {...}`: the dict built from the five arguments
DataOf(m) ==
    PyDict(<<[k |-> "enabled", v |-> m.enabled], [k |-> "hour", v |-> m.hour],
             [k |-> "minute", v |-> m.minute], [k |-> "timezone", v |-> m.timezone],
             [k |-> "config", v |-> m.config]>>)

NoFile == [exists |-> FALSE, toks |-> <<>>]
FileOf(toks) == [exists |-> TRUE, toks |-> toks]

\* load_config's five assignments from the parsed dict, with their defaults
FieldsOf(pairs) ==
    [enabled |-> Get(pairs, "enabled", PyBool(FALSE)),
     hour |-> Get(pairs, "hour", PyInt(9)),
     minute |-> Get(pairs, "minute", PyInt(0)),
     timezone |-> Get(pairs, "timezone", PyStr("Etc/UTC")),
     config |-> Get(pairs, "config", PyDict(<<>>))]

\* The body of load_config's try block: exc is TRUE where it raises, mem is
\* the fields as the body left them.
load_body(m, d) ==
    IF ~d.exists THEN [mem |-> m, val |-> PyDict(<<>>), exc |-> FALSE]
    ELSE LET p == JsonLoad(d.toks) IN
         IF ~p.ok THEN [mem |-> m, val |-> PyDict(<<>>), exc |-> TRUE]
         ELSE IF p.v.t # "dict" THEN [mem |-> m, val |-> PyDict(<<>>), exc |-> TRUE]
         ELSE LET m2 == FieldsOf(p.v.d) IN
              IF FormatD(m2.hour) /\ FormatD(m2.minute)
              THEN [mem |-> m2, val |-> p.v, exc |-> FALSE]
              ELSE [mem |-> m2, val |-> PyDict(<<>>), exc |-> TRUE]

\* A load_config that resets the fields to the defaults when it fails.
load_config_resets(m, d) ==
    LET b == load_body(m, d) IN
    [mem |-> IF b.exc \/ ~d.exists THEN Defaults ELSE b.mem,
     val |-> IF b.exc THEN PyDict(<<>>) ELSE b.val, ok |-> ~b.exc /\ d.exists,
     raised |-> FALSE]

\* load_config: `except Exception` catches what the body raises and {} is returned
load_config(m, d) ==
    LET b == load_body(m, d) IN
    [mem |-> b.mem,
     val |-> IF b.exc THEN PyDict(<<>>) ELSE b.val,
     ok |-> ~b.exc /\ d.exists,
     raised |-> FALSE]

\* Where a save_config call fails: nowhere, at open(), or in json.dump after
\* k tokens reached the file.
NoFail == [at |-> "none", k |-> 0]
OpenFail == [at |-> "open", k |-> 0]
WriteFail(k) == [at |-> "write", k |-> k]

Min(a, b) == IF a < b THEN a ELSE b

\* save_config: open(file, 'w') truncates the file, json.dump writes into it,
\* then the five fields are assigned and the summary line is printed; any
\* exception is caught and False is returned.
save_config(m, d, args, fail) ==
    LET full == JsonDump(DataOf(args)) IN
    IF fail.at = "open" THEN [mem |-> m, disk |-> d, ok |-> FALSE]
    ELSE IF fail.at = "write"
    THEN [mem |-> m, disk |-> FileOf(SubSeq(full, 1, Min(fail.k, Len(full) - 1))), ok |-> FALSE]
    ELSE [mem |-> args, disk |-> FileOf(full), ok |-> FormatD(args.hour) /\ FormatD(args.minute)]

-----------------------------------------------------------------------------
(* Threads and event loops.                                                *)

ThreadIds == 1..MaxThreads

Unborn == [pc |-> "unborn", wake |-> 0, res |-> "none"]
Spawned(t) == [pc |-> "spawned", wake |-> t, res |-> "none"]
Ended == [pc |-> "dead", wake |-> 0, res |-> "none"]
NoThreads == [i \in ThreadIds |-> Unborn]
NoLoops == [i \in ThreadIds |-> "none"]

\* Thread.is_alive(): started and run_scheduler has not returned
IsAlive(i) == th[i].pc \notin {"unborn", "dead"}

\* `self.thread and self.thread.is_alive()`, the test that opens start() and stop()
thread_is_alive == thread # 0 /\ IsAlive(thread)

\* The id the next Thread object gets.
NextId == Cardinality({i \in ThreadIds : th[i].pc # "unborn"}) + 1

\* A start() that does not look at the running thread.
start_unguarded == FALSE

\* start() returns at once, with a warning, when the timer thread is alive
start_already_running == thread_is_alive

\* start(): clears the stop signal and starts a new daemon Thread on
\* run_scheduler, unless one is alive
start ==
    IF start_already_running
    THEN UNCHANGED <<stop_event, thread, th>>
    ELSE /\ NextId \in ThreadIds
         /\ stop_event' = FALSE
         /\ thread' = NextId
         /\ th' = [th EXCEPT ![NextId] = Spawned(now)]

-----------------------------------------------------------------------------
(* History variables.                                                      *)

\* ret: the call, whether it succeeded, whether it raised, what it returned,
\* the arguments of a save_config, whether the call left the five fields and
\* the file as they were, whether the timer thread was alive when the call
\* began, and whether the call left thread, loop, stop_event and the threads
\* as they were.
NoCall ==
    [op |-> "none", ok |-> FALSE, raised |-> FALSE, val |-> PyNone,
     args |-> Defaults, memSame |-> TRUE, diskSame |-> TRUE,
     alive0 |-> FALSE, thrSame |-> TRUE]

NoneSaved == [some |-> FALSE, rec |-> Defaults]
NoRuns == [completed |-> 0, failed |-> 0, abandoned |-> 0, skipped |-> 0, notified |-> 0]
NoMinute == [cur |-> FALSE, done |-> FALSE, ok |-> FALSE, n |-> 0]

\* run before any call of run_complete_workflow was made
NoRun == [pc |-> "none"]

\* outputs when no run is followed in it
NoOutputs == [sec |-> 0]

\* race when no statement-by-statement interleaving is followed
NoRace == [w |-> "none"]

\* lastSaved after a save_config(args) call with result r on the file d
SavedAfter(d, r, args) ==
    IF r.ok THEN [some |-> TRUE, rec |-> args]
    ELSE IF r.disk = d THEN lastSaved
    ELSE NoneSaved

-----------------------------------------------------------------------------
(* SpecStore: the persisted record.                                        *)

Timezones == {"Etc/UTC", "Europe/Warsaw"}

\* the embedded run configuration, as enable_schedule builds it
ConfigOf(subs, top) ==
    PyDict(<<[k |-> "subreddit_config", v |-> PyStr(subs)],
             [k |-> "top_comments", v |-> PyInt(top)]>>)

\* The valid schedule states save_config is called with.
Sched(e, h, m, z, c) ==
    [enabled |-> PyBool(e), hour |-> PyInt(h), minute |-> PyInt(m),
     timezone |-> PyStr(z), config |-> c]

\* A configuration with every key run_analysis reads set away from its
\* default, a stored notification flag, and narration fields.
FullConfig ==
    PyDict(<<[k |-> "subreddit_config", v |-> PyStr("LocalLLaMA:10")],
             [k |-> "time_filter", v |-> PyStr("week")],
             [k |-> "top_comments", v |-> PyInt(7)],
             [k |-> "replies_per_comment", v |-> PyInt(3)],
             [k |-> "model", v |-> PyStr("gemini-2.5-flash")],
             [k |-> "system_prompt", v |-> PyStr("Be brief")],
             [k |-> "user_prompt", v |-> PyStr("Top news")],
             [k |-> "send_to_telegram", v |-> PyBool(FALSE)],
             [k |-> "generate_tts", v |-> PyBool(TRUE)],
             [k |-> "voice_name", v |-> PyNone]>>)

StoreArgs ==
    {Sched(TRUE, 7, 0, "Etc/UTC", ConfigOf("LocalLLaMA:10", 10)),
     Sched(TRUE, 7, 0, "Etc/UTC", FullConfig),
     Sched(FALSE, 7, 0, "Etc/UTC", ConfigOf("LocalLLaMA:10", 10)),
     Sched(TRUE, 23, 59, "Europe/Warsaw", PyDict(<<>>)),
     Sched(FALSE, 0, 30, "Europe/Warsaw", ConfigOf("", 5)),
     Sched(TRUE, 9, 0, "Etc/UTC", PyDict(<<>>))}

Fails == {NoFail, OpenFail} \cup {WriteFail(k) : k \in 0..MaxWritten}

\* Files the process may find at start: none, an empty one, a record, a
\* record edited by hand (hour as a string; keys missing), JSON that is no object.
InitialDisks ==
    {NoFile,
     FileOf(<<>>),
     FileOf(JsonDump(DataOf([Defaults EXCEPT !.enabled = PyBool(TRUE), !.hour = PyInt(7)]))),
     FileOf(JsonDump(DataOf([Defaults EXCEPT !.enabled = PyBool(TRUE), !.hour = PyStr("7")]))),
     FileOf(<<"{", Quote("enabled"), ":", "true", "}">>),
     FileOf(<<"null">>)}

InitStore ==
    /\ run = NoRun
    /\ outputs = NoOutputs
    /\ race = NoRace
    /\ mem = Defaults
    /\ disk \in InitialDisks
    /\ thread = 0
    /\ loop = 0
    /\ stop_event = FALSE
    /\ th = NoThreads
    /\ loopSt = NoLoops
    /\ now = 0
    /\ ctl = [pc |-> "idle", op |-> "none", deadline |-> 0, calls |-> 0]
    /\ ret = NoCall
    /\ lastGood = Defaults
    /\ lastSaved = NoneSaved
    /\ fires = <<>>
    /\ runs = NoRuns
    /\ minuteLog = NoMinute

\* scheduler.save_config(enabled, hour, minute, timezone, config)
SaveConfig ==
    \E args \in StoreArgs, fail \in Fails :
        LET r == save_config(mem, disk, args, fail) IN
        /\ mem' = r.mem
        /\ disk' = r.disk
        /\ ret' = [op |-> "save", ok |-> r.ok, raised |-> FALSE, val |-> PyBool(r.ok),
                   args |-> args, memSame |-> (r.mem = mem), diskSame |-> (r.disk = disk),
                   alive0 |-> thread_is_alive, thrSame |-> TRUE]
        /\ lastGood' = IF r.ok THEN args ELSE lastGood
        /\ lastSaved' = SavedAfter(disk, r, args)
        /\ UNCHANGED <<run, outputs, race, thread, loop, stop_event, th, loopSt, now, ctl, fires, runs, minuteLog>>

\* scheduler.load_config()
LoadConfig ==
    LET r == load_config(mem, disk) IN
    /\ mem' = r.mem
    /\ ret' = [op |-> "load", ok |-> r.ok, raised |-> r.raised, val |-> r.val,
               args |-> Defaults, memSame |-> (r.mem = mem), diskSame |-> TRUE,
               alive0 |-> thread_is_alive, thrSame |-> TRUE]
    /\ lastGood' = IF r.ok THEN FieldsOf(r.val.d) ELSE lastGood
    /\ UNCHANGED <<run, outputs, race, disk, thread, loop, stop_event, th, loopSt, now, ctl, lastSaved,
                   fires, runs, minuteLog>>

\* An initialize_scheduler that starts the timer whatever was loaded.
init_starts_always(r) == TRUE

\* initialize_scheduler's `if scheduler.enabled:` after load_config()
init_starts(r) == Truthy(r.mem.enabled)

\* The process ends and is started again: the module-level SimpleScheduler()
\* is constructed anew (daemon threads died with the old process) and main
\* calls initialize_scheduler(): load_config(), then start() if enabled.
ProcessRestart ==
    LET r == load_config(Defaults, disk) IN
    /\ mem' = r.mem
    /\ loop' = 0
    /\ loopSt' = NoLoops
    /\ IF init_starts(r)
       THEN /\ stop_event' = FALSE
            /\ thread' = 1
            /\ th' = [NoThreads EXCEPT ![1] = Spawned(now)]
       ELSE /\ stop_event' = FALSE
            /\ thread' = 0
            /\ th' = NoThreads
    /\ ret' = [op |-> "init", ok |-> r.ok, raised |-> r.raised, val |-> r.val,
               args |-> Defaults, memSame |-> (r.mem = Defaults), diskSame |-> TRUE,
               alive0 |-> FALSE, thrSame |-> ~init_starts(r)]
    /\ lastGood' = IF r.ok THEN FieldsOf(r.val.d) ELSE Defaults
    /\ ctl' = [pc |-> "idle", op |-> "none", deadline |-> 0, calls |-> 0]
    /\ fires' = <<>>
    /\ UNCHANGED <<run, outputs, race, disk, now, lastSaved, runs, minuteLog>>

-----------------------------------------------------------------------------
(* The clock. One tick is 5 seconds; tick 0 is 06:59:55 UTC, so the        *)
(* calendar minute 07:00 is the ticks 1 to 12.                             *)

\* The check cycle sleeping 20 seconds instead of 60.
PollInterval_short == 20 \div 5

\* asyncio.sleep(60), in ticks
PollInterval == 60 \div 5

\* self.thread.join(timeout=5), in ticks
JoinTimeout == 5 \div 5

TicksPerMinute == 60 \div 5
StartSecond == 6 * 3600 + 59 * 60 + 55

\* zoneinfo.ZoneInfo(self.timezone) succeeds for the names of known zones
TzKnown(z) == z.t = "str" /\ z.s \in Timezones
TzOffset(name) == IF name = "Europe/Warsaw" THEN 3600 ELSE 0

\* datetime.now(tz) at tick t: its hour and minute
LocalSecond(t, name) == StartSecond + 5 * t + TzOffset(name)
HourAt(t, name) == (LocalSecond(t, name) \div 3600) % 24
MinuteAt(t, name) == (LocalSecond(t, name) \div 60) % 60

\* The calendar minute tick t lies in, counted from midnight UTC.
CalMinute(t) == (StartSecond + 5 * t) \div 60

\* now.hour == self.hour and now.minute == self.minute
TimeMatches(t) ==
    /\ EqInt(mem.hour, HourAt(t, mem.timezone.s))
    /\ EqInt(mem.minute, MinuteAt(t, mem.timezone.s))

\* parse_subreddit_config(s): the boards of "Name:limit, Name:limit"
BoardsOf(s) ==
    IF s = "LocalLLaMA:10" THEN <<[name |-> "LocalLLaMA", limit |-> 10]>> ELSE <<>>

\* The keys of the embedded configuration that run_analysis reads.
RunKeys ==
    {"subreddit_config", "time_filter", "top_comments", "replies_per_comment",
     "model", "system_prompt", "user_prompt"}

\* run_analysis raises before it reaches the orchestrator: self.config.get on
\* something that is no dict, str.split on something that is no str, int()
\* of something that is no number
run_analysis_raises(cfg) ==
    \/ cfg.t # "dict"
    \/ Get(cfg.d, "subreddit_config", PyStr("")).t # "str"
    \/ /\ BoardsOf(Get(cfg.d, "subreddit_config", PyStr("")).s) # <<>>
       /\ \/ ~py_int(Get(cfg.d, "top_comments", PyInt(10))).ok
          \/ ~py_int(Get(cfg.d, "replies_per_comment", PyInt(5))).ok

\* A run_analysis that takes the notification flag from the stored configuration.
notify_flag_stored(cfg) == Truthy(Get(cfg.d, "send_to_telegram", PyBool(TRUE)))

\* send_to_telegram=True, a literal in the call
notify_flag(cfg) == TRUE

\* The stored fields beyond RunKeys (narration, newsletter and generation
\* parameters), each passed on with its stored value.
run_analysis_extra(cfg) ==
    SelectSeq(cfg.d, LAMBDA p : p.k \notin RunKeys \cup {"send_to_telegram"})

\* A run_analysis that calls the orchestrator with its own defaults for the
\* model and the recency window.
run_analysis_args_defaults(cfg) ==
    [subreddit_config |-> BoardsOf(Get(cfg.d, "subreddit_config", PyStr("")).s),
     time_filter |-> PyStr("day"),
     top_comments |-> py_int(Get(cfg.d, "top_comments", PyInt(10))).n,
     replies_per_comment |-> py_int(Get(cfg.d, "replies_per_comment", PyInt(5))).n,
     model |-> PyStr("gemini-2.5-pro"),
     system_prompt |-> Get(cfg.d, "system_prompt", PyStr("")),
     user_prompt |-> Get(cfg.d, "user_prompt", PyStr("")),
     send_to_telegram |-> notify_flag(cfg),
     extra |-> run_analysis_extra(cfg)]

\* The keyword arguments of run_analysis's call of run_complete_workflow
run_analysis_args(cfg) ==
    [subreddit_config |-> BoardsOf(Get(cfg.d, "subreddit_config", PyStr("")).s),
     time_filter |-> Get(cfg.d, "time_filter", PyStr("day")),
     top_comments |-> py_int(Get(cfg.d, "top_comments", PyInt(10))).n,
     replies_per_comment |-> py_int(Get(cfg.d, "replies_per_comment", PyInt(5))).n,
     model |-> Get(cfg.d, "model", PyStr("gemini-2.5-pro")),
     system_prompt |-> Get(cfg.d, "system_prompt", PyStr("")),
     user_prompt |-> Get(cfg.d, "user_prompt", PyStr("")),
     send_to_telegram |-> notify_flag(cfg),
     extra |-> run_analysis_extra(cfg)]

-----------------------------------------------------------------------------
(* The timer thread: run_scheduler, scheduler_loop, run_analysis and the   *)
(* orchestrator run_complete_workflow it awaits.                           *)

\* Positions inside an orchestrator run, those suspended in an await, and
\* those the thread is due to leave by th[i].wake.
RunPcs == {"wf_fetch", "wf_analyze", "wf_save", "wf_notify", "wf_error", "wf_close"}
AwaitPcs == {"wf_fetch", "wf_analyze", "wf_notify", "wf_error", "wf_close",
             "sleep_fired", "sleep"}
DuePcs == {"spawned", "loop_test", "poll", "sleep_fired", "sleep"}

FiresIn(m) == Cardinality({k \in DOMAIN fires : fires[k].min = m})

\* The scheduler is Running-Enabled: timer thread alive, stop signal clear,
\* enabled, a known timezone, and the controlling thread not inside a call.
RunningEnabled ==
    /\ thread_is_alive
    /\ ~stop_event
    /\ Truthy(mem.enabled)
    /\ TzKnown(mem.timezone)
    /\ ctl.pc = "idle"

\* the saved configuration names at least one board
BoardsConfigured ==
    /\ mem.config.t = "dict"
    /\ Get(mem.config.d, "subreddit_config", PyStr("")).t = "str"
    /\ BoardsOf(Get(mem.config.d, "subreddit_config", PyStr("")).s) # <<>>

RunInFlight == \E i \in ThreadIds : th[i].pc \in RunPcs

\* run_scheduler up to run_until_complete: the thread creates its event loop
\* and publishes it as self.loop
Boot(i) ==
    /\ th[i].pc = "spawned"
    /\ loop' = i
    /\ loopSt' = [loopSt EXCEPT ![i] = "open"]
    /\ th' = [th EXCEPT ![i].pc = "loop_test"]
    /\ UNCHANGED <<run, outputs, race, mem, disk, thread, stop_event, now, ctl, ret, lastGood, lastSaved,
                   fires, runs, minuteLog>>

\* A scheduler_loop that is `while True`.
stop_event_ignored == FALSE

\* `self.stop_event.is_set()` in the while test of scheduler_loop
stop_event_is_set == stop_event

\* `while not self.stop_event.is_set()`: when the signal is set scheduler_loop
\* returns, run_scheduler closes the loop and the thread ends
LoopTest(i) ==
    /\ th[i].pc = "loop_test"
    /\ IF stop_event_is_set
       THEN /\ th' = [th EXCEPT ![i] = Ended]
            /\ loopSt' = [loopSt EXCEPT ![i] = "closed"]
       ELSE /\ th' = [th EXCEPT ![i].pc = "poll"]
            /\ UNCHANGED loopSt
    /\ UNCHANGED <<run, outputs, race, mem, disk, thread, loop, stop_event, now, ctl, ret, lastGood,
                   lastSaved, fires, runs, minuteLog>>

Sleeping(i) == [th EXCEPT ![i] = [pc |-> "sleep", wake |-> now + PollInterval, res |-> "none"]]
SleepingFired(i) ==
    [th EXCEPT ![i] = [pc |-> "sleep_fired", wake |-> now + PollInterval, res |-> "none"]]

\* A scheduler_loop without its `if self.enabled:`.
enabled_test_skipped == TRUE

\* `if self.enabled:` of scheduler_loop
enabled_test == Truthy(mem.enabled)

\* A scheduler_loop whose try has no except clause: the exception leaves
\* scheduler_loop and run_scheduler, and the thread ends.
scheduler_loop_uncaught(i) == [th EXCEPT ![i] = Ended]

\* `except Exception as e` of scheduler_loop: the error is printed and the
\* iteration ends in `await asyncio.sleep(60)`
scheduler_loop_except(i) == Sleeping(i)

\* One poll of scheduler_loop, up to its next await: the enabled test, the
\* clock comparison and, on a match, run_analysis up to the first await of
\* run_complete_workflow. envOk is validate_environment()'s verdict.
Poll(i) ==
    /\ th[i].pc = "poll"
    /\ \E envOk \in BOOLEAN :
        IF ~enabled_test
        THEN /\ th' = Sleeping(i)
             /\ UNCHANGED <<fires, runs>>
        ELSE IF ~TzKnown(mem.timezone)
        THEN \* ZoneInfo raises
             /\ th' = scheduler_loop_except(i)
             /\ UNCHANGED <<fires, runs>>
        ELSE IF ~TimeMatches(now)
        THEN /\ th' = Sleeping(i)
             /\ UNCHANGED <<fires, runs>>
        ELSE IF run_analysis_raises(mem.config)
        THEN \* run_analysis reports the error
             /\ th' = [th EXCEPT ![i] = [pc |-> "wf_error", wake |-> now, res |-> "raised"]]
             /\ UNCHANGED <<fires, runs>>
        ELSE IF BoardsOf(Get(mem.config.d, "subreddit_config", PyStr("")).s) = <<>>
        THEN \* "No subreddits configured": run_analysis returns
             /\ th' = SleepingFired(i)
             /\ runs' = [runs EXCEPT !.skipped = @ + 1]
             /\ UNCHANGED fires
        ELSE /\ fires' = Append(fires, [th |-> i, min |-> CalMinute(now), at |-> now,
                                        args |-> run_analysis_args(mem.config)])
             /\ IF envOk
                THEN /\ th' = [th EXCEPT ![i] = [pc |-> "wf_fetch", wake |-> now, res |-> "ok"]]
                     /\ UNCHANGED runs
                ELSE \* run_complete_workflow returns (error_msg, None)
                     /\ th' = SleepingFired(i)
                     /\ runs' = [runs EXCEPT !.failed = @ + 1]
    /\ UNCHANGED <<run, outputs, race, mem, disk, thread, loop, stop_event, loopSt, now, ctl, ret, lastGood,
                   lastSaved, minuteLog>>

\* The step after pc inside run_complete_workflow when the step at pc succeeds.
WfNext(pc) ==
    CASE pc = "wf_fetch" -> "wf_analyze"
      [] pc = "wf_analyze" -> "wf_save"
      [] pc = "wf_save" -> "wf_notify"
      [] pc = "wf_notify" -> "wf_close"
      [] pc = "wf_error" -> "wf_close"

\* A step of run_complete_workflow: fetch_all_reddit_data, analyze_reddit_data,
\* save_analysis_to_file (no await in it), send_analysis_results, and in the
\* except branch send_error_notification. A step that raises leads to the
\* except branch. An await does not complete once its loop was told to stop.
Step(i) ==
    /\ th[i].pc \in {"wf_fetch", "wf_analyze", "wf_save", "wf_notify", "wf_error"}
    /\ th[i].pc \in AwaitPcs => loopSt[i] # "stopping"
    /\ \E ok \in BOOLEAN :
        IF ok \/ th[i].pc \in {"wf_notify", "wf_error"}
        THEN th' = [th EXCEPT ![i].pc = WfNext(th[i].pc)]
        ELSE th' = [th EXCEPT ![i].pc = "wf_error", ![i].res = "err"]
    /\ runs' = IF th[i].pc = "wf_error" THEN [runs EXCEPT !.notified = @ + 1] ELSE runs
    /\ UNCHANGED <<run, outputs, race, mem, disk, thread, loop, stop_event, loopSt, now, ctl, ret, lastGood,
                   lastSaved, fires, minuteLog>>

\* `finally: await reddit_client.close()`, the return to scheduler_loop and
\* its `await asyncio.sleep(60)` after the firing
Close(i) ==
    /\ th[i].pc = "wf_close"
    /\ loopSt[i] # "stopping"
    /\ th' = SleepingFired(i)
    /\ runs' = IF th[i].res = "ok"
               THEN [runs EXCEPT !.completed = @ + 1]
               ELSE [runs EXCEPT !.failed = @ + 1]
    /\ UNCHANGED <<run, outputs, race, mem, disk, thread, loop, stop_event, loopSt, now, ctl, ret, lastGood,
                   lastSaved, fires, minuteLog>>

\* An asyncio.sleep(60) ends: the one after a firing is followed by the
\* one that ends every iteration, and that one by the loop test
Wake(i) ==
    /\ th[i].pc \in {"sleep_fired", "sleep"}
    /\ now >= th[i].wake
    /\ loopSt[i] # "stopping"
    /\ IF th[i].pc = "sleep_fired"
       THEN th' = Sleeping(i)
       ELSE th' = [th EXCEPT ![i].pc = "loop_test"]
    /\ UNCHANGED <<run, outputs, race, mem, disk, thread, loop, stop_event, loopSt, now, ctl, ret, lastGood,
                   lastSaved, fires, runs, minuteLog>>

\* loop.stop() takes effect: run_until_complete raises RuntimeError while the
\* coroutine is suspended in an await, run_scheduler catches it, closes the
\* loop and the thread ends; what the coroutine awaited is never resumed
Interrupt(i) ==
    /\ loopSt[i] = "stopping"
    /\ th[i].pc \in AwaitPcs
    /\ th' = [th EXCEPT ![i] = Ended]
    /\ loopSt' = [loopSt EXCEPT ![i] = "closed"]
    /\ runs' = IF th[i].pc \in RunPcs THEN [runs EXCEPT !.abandoned = @ + 1] ELSE runs
    /\ UNCHANGED <<run, outputs, race, mem, disk, thread, loop, stop_event, now, ctl, ret, lastGood,
                   lastSaved, fires, minuteLog>>

\* The clock advances one tick, up to `limit`. A due step of the check cycle
\* is at most MaxLag late, a run lasts at most MaxRun, a stopped loop ends
\* its thread at once, and join returns when the thread ended or at the timeout.
TickTo(limit) ==
    /\ now < limit
    /\ \A i \in ThreadIds :
        /\ th[i].pc \in DuePcs => now < th[i].wake + MaxLag
        /\ th[i].pc \in RunPcs => now < th[i].wake + MaxRun
        /\ ~(loopSt[i] = "stopping" /\ th[i].pc \in AwaitPcs)
    /\ ctl.pc = "joining" => (thread_is_alive /\ now < ctl.deadline)
    /\ now' = now + 1
    /\ minuteLog' =
        IF CalMinute(now + 1) = CalMinute(now) THEN minuteLog
        ELSE [cur |-> RunningEnabled /\ ~RunInFlight,
              done |-> TRUE,
              ok |-> minuteLog.cur /\ RunningEnabled /\ TimeMatches(now) /\ BoardsConfigured,
              n |-> FiresIn(CalMinute(now))]
    /\ UNCHANGED <<run, outputs, race, mem, disk, thread, loop, stop_event, th, loopSt, ctl, ret, lastGood,
                   lastSaved, fires, runs>>

Tick == TickTo(MaxTime)
TickLife == TickTo(LifeTime)
TickStop == TickTo(StopTime)

\* A poll of the timer thread made while its clock reads the configured
\* hour:minute, up to run_analysis's call of run_complete_workflow; fires
\* keeps the last call.
PollAtTrigger ==
    /\ thread_is_alive
    /\ ~stop_event
    /\ enabled_test
    /\ TzKnown(mem.timezone)
    /\ ~run_analysis_raises(mem.config)
    /\ BoardsConfigured
    /\ fires' = <<[th |-> thread, min |-> 0, at |-> now,
                   args |-> run_analysis_args(mem.config)]>>
    /\ UNCHANGED <<run, outputs, race, mem, disk, thread, loop, stop_event, th, loopSt, now, ctl, ret,
                   lastGood, lastSaved, runs, minuteLog>>

NextStore == SaveConfig \/ LoadConfig \/ ProcessRestart \/ PollAtTrigger

SpecStore == InitStore /\ [][NextStore]_vars

-----------------------------------------------------------------------------
(* SpecCycle: one uninterrupted check cycle, from start() on.              *)

CycleRecords ==
    {Sched(TRUE, 7, 0, "Etc/UTC", ConfigOf("LocalLLaMA:10", 10)),
     Sched(TRUE, 8, 0, "Europe/Warsaw", ConfigOf("LocalLLaMA:10", 10)),
     Sched(TRUE, 7, 0, "Mars/Phobos", ConfigOf("LocalLLaMA:10", 10)),
     Sched(TRUE, 7, 0, "Etc/UTC", ConfigOf("", 5)),
     Sched(FALSE, 7, 0, "Etc/UTC", ConfigOf("LocalLLaMA:10", 10))}

\* The state right after start(), called at any tick of the first minute on
\* a scheduler holding a saved record.
InitCycle ==
    /\ run = NoRun
    /\ outputs = NoOutputs
    /\ race = NoRace
    /\ mem \in CycleRecords
    /\ disk = FileOf(JsonDump(DataOf(mem)))
    /\ now \in 0..(TicksPerMinute - 1)
    /\ thread = 1
    /\ loop = 0
    /\ stop_event = FALSE
    /\ th = [NoThreads EXCEPT ![1] = Spawned(now)]
    /\ loopSt = NoLoops
    /\ ctl = [pc |-> "idle", op |-> "none", deadline |-> 0, calls |-> 0]
    /\ ret = [NoCall EXCEPT !.op = "start", !.ok = TRUE, !.thrSame = FALSE]
    /\ lastGood = mem
    /\ lastSaved = [some |-> TRUE, rec |-> mem]
    /\ fires = <<>>
    /\ runs = NoRuns
    /\ minuteLog = NoMinute

NextCycle ==
    \/ \E i \in ThreadIds : Boot(i) \/ LoopTest(i) \/ Poll(i) \/ Step(i) \/ Close(i) \/ Wake(i)
    \/ Tick

SpecCycle == InitCycle /\ [][NextCycle]_vars

-----------------------------------------------------------------------------
(* Spec: the controlling thread calls start, stop, restart and             *)
(* enable_schedule while the timer thread runs.                            *)

Idle == ctl.pc = "idle" /\ ctl.calls < MaxCalls

\* What stop() does after its `is_alive()` test: nothing when no thread is
\* alive; otherwise it sets the stop signal and, when self.loop is set,
\* calls self.loop.call_soon_threadsafe, which raises RuntimeError on a
\* closed loop; then it joins.
StopOutcome ==
    IF ~thread_is_alive THEN "noop"
    ELSE IF loop # 0 /\ loopSt[loop] = "closed" THEN "raise"
    ELSE "join"

\* stop() as called by `op` ("stop" or "restart"), up to its return or to
\* the join it blocks in; restart() goes on to start() when stop() returned.
Stopping(op) ==
    CASE StopOutcome = "noop" ->
            /\ IF op = "restart" THEN start ELSE UNCHANGED <<stop_event, thread, th>>
            /\ UNCHANGED loopSt
            /\ ctl' = [ctl EXCEPT !.calls = @ + 1]
            /\ ret' = [NoCall EXCEPT !.op = op, !.ok = TRUE,
                                     !.thrSame = (th' = th /\ stop_event' = stop_event)]
      [] StopOutcome = "raise" ->
            /\ stop_event' = TRUE
            /\ UNCHANGED <<thread, th, loopSt>>
            /\ ctl' = [ctl EXCEPT !.calls = @ + 1]
            /\ ret' = [NoCall EXCEPT !.op = op, !.raised = TRUE, !.alive0 = TRUE,
                                     !.thrSame = stop_event]
      [] StopOutcome = "join" ->
            /\ stop_event' = TRUE
            /\ loopSt' = IF loop # 0 THEN [loopSt EXCEPT ![loop] = "stopping"] ELSE loopSt
            /\ UNCHANGED <<thread, th>>
            /\ ctl' = [pc |-> "joining", op |-> op, deadline |-> now + JoinTimeout,
                       calls |-> ctl.calls + 1]
            /\ ret' = NoCall

\* scheduler.start()
CallStart ==
    /\ Idle
    /\ start
    /\ ctl' = [ctl EXCEPT !.calls = @ + 1]
    /\ ret' = [NoCall EXCEPT !.op = "start", !.ok = TRUE, !.alive0 = thread_is_alive,
                             !.thrSame = (th' = th /\ thread' = thread
                                          /\ stop_event' = stop_event)]
    /\ minuteLog' = [minuteLog EXCEPT !.cur = FALSE]
    /\ UNCHANGED <<run, outputs, race, mem, disk, loop, loopSt, now, lastGood, lastSaved, fires, runs>>

\* scheduler.stop()
CallStop ==
    /\ Idle
    /\ Stopping("stop")
    /\ minuteLog' = [minuteLog EXCEPT !.cur = FALSE]
    /\ UNCHANGED <<run, outputs, race, mem, disk, loop, now, lastGood, lastSaved, fires, runs>>

\* scheduler.restart()
CallRestart ==
    /\ Idle
    /\ Stopping("restart")
    /\ minuteLog' = [minuteLog EXCEPT !.cur = FALSE]
    /\ UNCHANGED <<run, outputs, race, mem, disk, loop, now, lastGood, lastSaved, fires, runs>>

\* The timer thread ends well within the 5 seconds of a join: it is in a
\* step of the check cycle that takes no time, or suspended in an await of
\* a loop that was told to stop.
EndsSoon(i) ==
    \/ th[i].pc \in {"spawned", "loop_test", "poll"}
    \/ th[i].pc \in AwaitPcs /\ loopSt[i] = "stopping"

\* thread.join(timeout=5) returns, the thread having ended or the timeout
\* having passed; stop() returns, and restart() goes on to start(). The
\* join times out only on a thread that does not end soon: one held in the
\* part of a run that does not await (the file writes).
JoinReturn ==
    /\ ctl.pc = "joining"
    /\ thread_is_alive => (now >= ctl.deadline /\ ~EndsSoon(thread))
    /\ IF ctl.op = "restart" THEN start ELSE UNCHANGED <<stop_event, thread, th>>
    /\ ctl' = [ctl EXCEPT !.pc = "idle"]
    /\ ret' = [NoCall EXCEPT !.op = ctl.op, !.ok = TRUE, !.alive0 = TRUE, !.thrSame = FALSE]
    /\ UNCHANGED <<run, outputs, race, mem, disk, loop, loopSt, now, lastGood, lastSaved, fires, runs, minuteLog>>

\* The schedules enable_schedule is called with.
TimerArgs ==
    {Sched(TRUE, 7, 0, "Etc/UTC", ConfigOf("LocalLLaMA:10", 10)),
     Sched(TRUE, 7, 1, "Etc/UTC", ConfigOf("", 5))}

\* app.enable_schedule: save_config(enabled=True, ...), and restart() when
\* the save succeeded
CallEnable ==
    /\ Idle
    /\ \E args \in TimerArgs, fail \in {NoFail, OpenFail} :
        LET r == save_config(mem, disk, args, fail) IN
        /\ mem' = r.mem
        /\ disk' = r.disk
        /\ lastGood' = IF r.ok THEN args ELSE lastGood
        /\ lastSaved' = SavedAfter(disk, r, args)
        /\ IF r.ok
           THEN Stopping("restart")
           ELSE /\ ctl' = [ctl EXCEPT !.calls = @ + 1]
                /\ ret' = [NoCall EXCEPT !.op = "enable", !.args = args,
                                         !.alive0 = thread_is_alive]
                /\ UNCHANGED <<stop_event, thread, th, loopSt>>
    /\ minuteLog' = [minuteLog EXCEPT !.cur = FALSE]
    /\ UNCHANGED <<run, outputs, race, loop, now, fires, runs>>

\* The state at tick 0: a scheduler just constructed, or one that
\* initialize_scheduler loaded an enabled record into and started.
Init ==
    /\ run = NoRun
    /\ outputs = NoOutputs
    /\ race = NoRace
    /\ mem \in {Defaults, Sched(TRUE, 7, 0, "Etc/UTC", ConfigOf("LocalLLaMA:10", 10))}
    /\ disk = IF mem = Defaults THEN NoFile ELSE FileOf(JsonDump(DataOf(mem)))
    /\ now = 0
    /\ thread = IF mem = Defaults THEN 0 ELSE 1
    /\ loop = 0
    /\ stop_event = FALSE
    /\ th = IF mem = Defaults THEN NoThreads ELSE [NoThreads EXCEPT ![1] = Spawned(0)]
    /\ loopSt = NoLoops
    /\ ctl = [pc |-> "idle", op |-> "none", deadline |-> 0, calls |-> 0]
    /\ ret = [NoCall EXCEPT !.op = "init", !.ok = (mem # Defaults),
                            !.thrSame = (mem = Defaults)]
    /\ lastGood = mem
    /\ lastSaved = IF mem = Defaults THEN NoneSaved ELSE [some |-> TRUE, rec |-> mem]
    /\ fires = <<>>
    /\ runs = NoRuns
    /\ minuteLog = NoMinute

Next ==
    \/ \E i \in ThreadIds :
        Boot(i) \/ LoopTest(i) \/ Poll(i) \/ Step(i) \/ Close(i) \/ Interrupt(i)
    \/ TickLife
    \/ CallStart
    \/ CallStop
    \/ CallRestart
    \/ CallEnable
    \/ JoinReturn

Spec == Init /\ [][Next]_vars

-----------------------------------------------------------------------------
(* SpecStop: a check cycle, from start() on, during which the controlling  *)
(* thread calls stop() and start().                                        *)

NextStop ==
    \/ \E i \in ThreadIds :
        Boot(i) \/ LoopTest(i) \/ Poll(i) \/ Step(i) \/ Close(i) \/ Wake(i) \/ Interrupt(i)
    \/ TickStop
    \/ CallStop
    \/ CallStart
    \/ JoinReturn

SpecStop == InitCycle /\ [][NextStop]_vars

-----------------------------------------------------------------------------
(* One call of the orchestrator, checked under SpecRun: run_complete_workflow *)
(* of News_agent_v3/workflow.py (run.v = 3) and of News_agent/workflow.py     *)
(* (run.v = 1), one action per step.  Texts are modelled by their length or   *)
(* by whether they are empty; paths by their directory and file name.         *)

\* the variables of the schedule controller and the shared outputs
\* directory, which the run followed in `run` does not touch
schedVars == <<mem, disk, thread, loop, stop_event, th, loopSt, now, ctl, ret,
               lastGood, lastSaved, fires, runs, minuteLog, outputs, race>>

\* What the forum answers for one board: no post, an exception, one post,
\* or one post whose comments cannot be fetched.
BoardOutcomes == {"none", "fail", "some", "some_fail"}

\* a subreddit_config argument that is not a dict
NotADict == <<"notdict">>

\* the board mappings: one entry per board, in the order of the dict
BoardMappings ==
    {NotADict} \cup UNION {[1..n -> BoardOutcomes] : n \in 0..MaxBoards}

isinstance_dict(sc) == sc # NotADict

RequiredVars ==
    {"REDDIT_CLIENT_ID", "REDDIT_CLIENT_SECRET", "TELEGRAM_BOT_TOKEN", "TELEGRAM_CHAT_ID"}

\* the environments: every required variable set, or one of them missing
Environments == {RequiredVars} \cup {RequiredVars \ {x} : x \in RequiredVars}

validate_environment_forum_only(env) ==
    [is_valid |-> {"REDDIT_CLIENT_ID", "REDDIT_CLIENT_SECRET"} \subseteq env,
     missing |-> {"REDDIT_CLIENT_ID", "REDDIT_CLIENT_SECRET"} \ env]

\* utils.validate_environment: (len(missing) == 0, missing)
validate_environment(env) ==
    [is_valid |-> RequiredVars \ env = {}, missing |-> RequiredVars \ env]

\* fetch_top_posts: the formatted text and the post links of one board; an
\* exception is caught and gives the error text and no link
fetch_top_posts(b) ==
    [text |-> IF b = "fail" THEN "error" ELSE "posts",
     urls |-> IF b \in {"some", "some_fail"} THEN 1 ELSE 0]

\* fetch_post_comments for the post of board b: the formatted post, or the
\* error text when an exception was caught
fetch_post_comments(b) == IF b = "some_fail" THEN "error" ELSE "comments"

RECURSIVE all_links(_, _)
\* all_links after the loop over the boards j..Len(sc)
all_links(sc, j) ==
    IF j > Len(sc) THEN 0 ELSE fetch_top_posts(sc[j]).urls + all_links(sc, j + 1)

\* all_posts_text: one text per board, in the order of the mapping
all_posts_text(sc) ==
    [j \in 1..Len(sc) |-> [board |-> j, text |-> fetch_top_posts(sc[j]).text]]

RECURSIVE all_comments_text(_, _)
\* all_comments_text: one text per link, for the links of the boards j..Len(sc)
all_comments_text(sc, j) ==
    IF j > Len(sc) THEN <<>>
    ELSE (IF fetch_top_posts(sc[j]).urls > 0
          THEN <<[board |-> j, text |-> fetch_post_comments(sc[j])]>>
          ELSE <<>>) \o all_comments_text(sc, j + 1)

fetch_all_reddit_data_posts_text(sc) ==
    [raised |-> FALSE, links |-> all_links(sc, 1),
     full_data |-> all_posts_text(sc),
     raw_data |-> <<[board |-> 0, text |-> "header"]>> \o all_posts_text(sc)]

\* fetch_all_reddit_data: raises when no link was found; otherwise full_data
\* joins the comment texts and raw_data is a header followed by one entry
\* per link.  all_posts_text is built and not returned.
fetch_all_reddit_data(sc) ==
    IF all_links(sc, 1) = 0
    THEN [raised |-> TRUE, links |-> 0, full_data |-> <<>>, raw_data |-> <<>>]
    ELSE [raised |-> FALSE, links |-> all_links(sc, 1),
          full_data |-> all_comments_text(sc, 1),
          raw_data |-> <<[board |-> 0, text |-> "header"]>> \o all_comments_text(sc, 1)]

\* the least length of an accepted analysis
MinAnalysis == 100

\* What analyze_reddit_data gives: an exception, or a text of this length.
AnalysisLengths == {0, 40, MinAnalysis - 1, MinAnalysis, 500}
AnalysisOutcomes == {-1} \cup AnalysisLengths

analysis_always_accepted(v, n) == FALSE

\* "if not analysis or len(analysis) < 100" of the v3 orchestrator; the v1
\* orchestrator has no test between analysis and save
analysis_rejected(v, n) == v = 3 /\ n < MinAnalysis

\* directories and path values
OutputsDir == "outputs"
RunDir == "outputs/run_<timestamp>"
NoPath == [k |-> "none", dir |-> "", name |-> ""]
PathIn(dir, name) == [k |-> "path", dir |-> dir, name |-> name]
ErrorMsg(why) == [k |-> "error", dir |-> "", name |-> why]

\* the folder save_analysis_to_file writes to, and its two file names
save_folder(v) == IF v = 3 THEN RunDir ELSE OutputsDir
analysis_filename(v) ==
    IF v = 3 THEN PathIn(RunDir, "analysis.txt")
    ELSE PathIn(OutputsDir, "reddit_analysis_<timestamp>.txt")
raw_data_filename(v) ==
    IF v = 3 THEN PathIn(RunDir, "raw_data.txt")
    ELSE PathIn(OutputsDir, "reddit_raw_data_<timestamp>.txt")

audio_path_no_folder(output_folder) == PathIn(OutputsDir, "audio_<timestamp>.wav")

\* TTSInference.generate_audio: where the audio is written
audio_path(output_folder) ==
    IF output_folder # "" THEN PathIn(output_folder, "audio.wav")
    ELSE PathIn(OutputsDir, "audio_<timestamp>.wav")

\* How a write to the file system may end in save_analysis_to_file.
SaveOutcomes == {"ok", "mkdir", "analysis", "raw"}

\* the return value: (error_msg, None, ...) or the paths
error_return(v, why) ==
    IF v = 3 THEN <<ErrorMsg(why), NoPath, NoPath, NoPath, NoPath>>
    ELSE <<ErrorMsg(why), NoPath>>
success_return(r) ==
    IF r.v = 3
    THEN <<r.analysis_file, r.raw_data_file, r.audio_file, r.email_data_file,
           r.llm_input_file>>
    ELSE <<r.analysis_file, r.raw_data_file>>

\* run at the call of run_complete_workflow
RunStart(v, sc, env, tg, tts, em) ==
    [v |-> v, subreddit_config |-> sc, env |-> env, send_to_telegram |-> tg,
     generate_tts |-> tts, fetch_emails |-> em,
     pc |-> "validate", clients |-> "none", calls |-> {}, dirs |-> {},
     files |-> {}, links |-> 0, emails |-> FALSE, analysed |-> FALSE, len |-> -1,
     run_folder |-> "", analysis_file |-> NoPath, raw_data_file |-> NoPath,
     audio_file |-> NoPath, email_data_file |-> NoPath, llm_input_file |-> NoPath,
     raw_reddit_data |-> <<>>, io |-> "", sends |-> <<>>, error |-> "", raised |-> FALSE, ret |-> <<>>]

\* the except clause is entered with the exception why
Except(r, why) == [r EXCEPT !.pc = "except", !.error = why]

\* return error_msg, None, ... before the clients exist
Reject(r, why) ==
    [r EXCEPT !.pc = "done", !.error = why, !.ret = error_return(r.v, why)]

\* The checks before the clients are created, then the two clients.  The v1
\* orchestrator prints list(subreddit_config.keys()) first, and tests only
\* the environment.
Validate ==
    /\ run.pc = "validate"
    /\ run' =
        IF run.v = 3 /\ ~isinstance_dict(run.subreddit_config)
        THEN Reject(run, "Invalid subreddit_config type")
        ELSE IF run.v = 3 /\ run.subreddit_config = <<>>
        THEN Reject(run, "No subreddits configured")
        ELSE IF run.v = 1 /\ ~isinstance_dict(run.subreddit_config)
        THEN [run EXCEPT !.pc = "done", !.raised = TRUE]
        ELSE IF ~validate_environment(run.env).is_valid
        THEN Reject(run, "Missing required environment variables")
        ELSE [run EXCEPT !.pc = "fetch", !.clients = "open"]
    /\ UNCHANGED schedVars

\* Step 1: fetch_all_reddit_data, then "if not reddit_data: raise".
FetchReddit ==
    /\ run.pc = "fetch"
    /\ LET got == fetch_all_reddit_data(run.subreddit_config)
           r1 == [run EXCEPT !.calls = @ \cup {"forum"}, !.links = got.links,
                             !.raw_reddit_data = got.raw_data]
       IN  run' =
            IF got.raised THEN Except(r1, "No posts found from any subreddit")
            ELSE IF got.full_data = <<>> THEN Except(r1, "No posts found")
            ELSE [r1 EXCEPT !.pc = IF run.v = 3 THEN "emails" ELSE "analyze"]
    /\ UNCHANGED schedVars

\* Step 2 of v3: the newsletters, when they are asked for; fetch_emails
\* catches its exceptions and returns [].
FetchEmails ==
    /\ run.pc = "emails"
    /\ \E found \in BOOLEAN :
        run' =
            IF run.fetch_emails
            THEN [run EXCEPT !.pc = "analyze", !.calls = @ \cup {"newsletter"},
                             !.emails = found]
            ELSE [run EXCEPT !.pc = "analyze"]
    /\ UNCHANGED schedVars

\* Step 3: analyze_reddit_data, and the test of its result.
Analyze ==
    /\ run.pc = "analyze"
    /\ \E n \in AnalysisOutcomes :
        LET r1 == [run EXCEPT !.calls = @ \cup {"analysis"}]
        IN  run' =
                IF n = -1 THEN Except(r1, "analysis failed")
                ELSE IF analysis_rejected(run.v, n)
                THEN Except([r1 EXCEPT !.len = n], "Analysis too short or empty")
                ELSE [r1 EXCEPT !.pc = "save", !.analysed = TRUE, !.len = n]
    /\ UNCHANGED schedVars

\* save_analysis_to_file(io): the folder is made before the try, so a failing
\* mkdir raises; an IOError of one of the two writes is caught and gives
\* (None, None, None); otherwise both files are written and their paths and
\* the folder are returned.  dirs and files are what the call created.
save_analysis_to_file(v, io) ==
    LET dir == save_folder(v)
        none == [raised |-> FALSE, dirs |-> {dir}, files |-> {},
                 analysis_file |-> NoPath, raw_data_file |-> NoPath, run_folder |-> ""]
    IN  CASE io = "mkdir" -> [none EXCEPT !.raised = TRUE, !.dirs = {}]
          [] io = "analysis" -> none
          [] io = "raw" -> [none EXCEPT !.files = {analysis_filename(v)}]
          [] OTHER ->
                [none EXCEPT !.files = {analysis_filename(v), raw_data_filename(v)},
                             !.analysis_file = analysis_filename(v),
                             !.raw_data_file = raw_data_filename(v),
                             !.run_folder = IF v = 3 THEN dir ELSE ""]

save_failed_unchecked(res) == FALSE

\* "if not analysis_file or not raw_data_file" after the save
save_failed(res) == res.analysis_file = NoPath \/ res.raw_data_file = NoPath

\* Step 4: save_analysis_to_file, and the test of what it returned, which
\* raises "Failed to save analysis files".
SaveFiles ==
    /\ run.pc = "save"
    /\ \E io \in SaveOutcomes :
        LET res == save_analysis_to_file(run.v, io)
            r1 == [run EXCEPT !.io = io, !.dirs = @ \cup res.dirs,
                              !.files = @ \cup res.files]
        IN  run' =
                IF res.raised THEN Except(r1, "mkdir failed")
                ELSE IF save_failed(res) THEN Except(r1, "Failed to save analysis files")
                ELSE [r1 EXCEPT !.pc = IF run.v = 3 THEN "llm_input" ELSE "notify",
                                !.run_folder = res.run_folder,
                                !.analysis_file = res.analysis_file,
                                !.raw_data_file = res.raw_data_file]
    /\ UNCHANGED schedVars

\* save_llm_input(run_folder=run_folder); its open is not in a try.
SaveLlmInput ==
    /\ run.pc = "llm_input"
    /\ \E ok \in BOOLEAN :
        run' =
            IF ok
            THEN [run EXCEPT !.pc = "email_file",
                             !.files = @ \cup {PathIn(run.run_folder, "llm_input.txt")},
                             !.llm_input_file = PathIn(run.run_folder, "llm_input.txt")]
            ELSE Except(run, "llm_input.txt not written")
    /\ UNCHANGED schedVars

\* "if emails: save_email_data(emails, run_folder=run_folder)"
SaveEmailData ==
    /\ run.pc = "email_file"
    /\ \E ok \in BOOLEAN :
        run' =
            IF ~run.emails THEN [run EXCEPT !.pc = "tts"]
            ELSE IF ok
            THEN [run EXCEPT !.pc = "tts",
                             !.files = @ \cup {PathIn(run.run_folder, "emails.json")},
                             !.email_data_file = PathIn(run.run_folder, "emails.json")]
            ELSE Except(run, "emails.json not written")
    /\ UNCHANGED schedVars

\* Step 5 of v3: the narration; its failure is caught and leaves audio_file None.
GenerateTts ==
    /\ run.pc = "tts"
    /\ \E ok \in BOOLEAN :
        run' =
            IF ~run.generate_tts THEN [run EXCEPT !.pc = "notify"]
            ELSE IF ok
            THEN [run EXCEPT !.pc = "notify", !.calls = @ \cup {"tts"},
                             !.files = @ \cup {audio_path(run.run_folder)},
                             !.audio_file = audio_path(run.run_folder)]
            ELSE [run EXCEPT !.pc = "notify", !.calls = @ \cup {"tts"}]
    /\ UNCHANGED schedVars

\* What send_analysis_results may send.
Sends == {"message", "document", "audio"}

\* the sends in their order: the audio only when there is an audio file
SendOrder(audio_file) ==
    IF audio_file # NoPath THEN <<"message", "document", "audio">>
    ELSE <<"message", "document">>

send_analysis_results_until_failure(audio_file, failing) ==
    LET order == SendOrder(audio_file)
        bad == {j \in 1..Len(order) : order[j] \in failing}
        last == IF bad = {} THEN Len(order)
                ELSE CHOOSE j \in bad : \A k \in bad : j <= k
    IN  [sends |-> [j \in 1..last |->
                        [what |-> order[j], ok |-> order[j] \notin failing]],
         success |-> bad = {}]

\* send_analysis_results: send_telegram_message, send_telegram_document and,
\* when there is an audio file, send_telegram_audio, each catching its own
\* exception and returning False; the result is the conjunction.  failing
\* is the set of sends that fail.
send_analysis_results(audio_file, failing) ==
    [sends |-> [j \in 1..Len(SendOrder(audio_file)) |->
                    [what |-> SendOrder(audio_file)[j],
                     ok |-> SendOrder(audio_file)[j] \notin failing]],
     success |-> \A j \in 1..Len(SendOrder(audio_file)) :
                    SendOrder(audio_file)[j] \notin failing]

\* The last step: send_analysis_results when asked for, whose result is only
\* printed, then the return of the paths.
SendResults ==
    /\ run.pc = "notify"
    /\ \E failing \in SUBSET Sends :
        run' = [run EXCEPT !.pc = "close",
                           !.calls = IF run.send_to_telegram
                                     THEN @ \cup {"notify_result"} ELSE @,
                           !.sends = IF run.send_to_telegram
                                     THEN send_analysis_results(run.audio_file, failing).sends
                                     ELSE @,
                           !.ret = success_return(run)]
    /\ UNCHANGED schedVars

\* The except clause: send_error_notification when asked for, then the
\* return of the error message.  send_error_notification does not raise.
HandleError ==
    /\ run.pc = "except"
    /\ run' = [run EXCEPT !.pc = "close",
                          !.calls = IF run.send_to_telegram
                                    THEN @ \cup {"notify_error"} ELSE @,
                          !.ret = error_return(run.v, run.error)]
    /\ UNCHANGED schedVars

\* finally: await reddit_client.close(), and the end of the async with
CloseClient ==
    /\ run.pc = "close"
    /\ run' = [run EXCEPT !.pc = "done", !.clients = "closed"]
    /\ UNCHANGED schedVars

\* The arguments of a call: the v1 orchestrator has no newsletter and no
\* narration argument.
RunInputs ==
    {RunStart(v, sc, env, tg, tts, em) :
        v \in {1, 3}, sc \in BoardMappings, env \in Environments,
        tg \in BOOLEAN, tts \in BOOLEAN, em \in BOOLEAN}

InitRun ==
    /\ outputs = NoOutputs
    /\ race = NoRace
    /\ run \in {r \in RunInputs : r.v = 1 => (~r.generate_tts /\ ~r.fetch_emails)}
    /\ mem = Defaults
    /\ disk = NoFile
    /\ thread = 0
    /\ loop = 0
    /\ stop_event = FALSE
    /\ th = NoThreads
    /\ loopSt = NoLoops
    /\ now = 0
    /\ ctl = [pc |-> "idle", op |-> "none", deadline |-> 0, calls |-> 0]
    /\ ret = NoCall
    /\ lastGood = Defaults
    /\ lastSaved = NoneSaved
    /\ fires = <<>>
    /\ runs = NoRuns
    /\ minuteLog = NoMinute

NextRun ==
    \/ Validate
    \/ FetchReddit
    \/ FetchEmails
    \/ Analyze
    \/ SaveFiles
    \/ SaveLlmInput
    \/ SaveEmailData
    \/ GenerateTts
    \/ SendResults
    \/ HandleError
    \/ CloseClient

SpecRun == InitRun /\ [][NextRun]_vars

-----------------------------------------------------------------------------
(* Runs that overlap, checked under SpecOutputs: manual runs started from  *)
(* the interface and scheduled runs are not serialised, and each reaches   *)
(* save_analysis_to_file of News_agent_v3/utils.py at some clock second.   *)

RunIds == 1..MaxOverlap

\* the variables an overlapping run does not touch
nonOutputs == <<mem, disk, thread, loop, stop_event, th, loopSt, now, ctl, ret,
                lastGood, lastSaved, fires, runs, minuteLog, run, race>>

\* run_folder = Path(OUTPUTS_DIR) / f"run_{timestamp}", the timestamp being
\* datetime.now() formatted to the second
run_folder_at(sec) == <<"outputs/run_", sec>>

\* open(path, "w") by run r: the file is created, or truncated and rewritten
open_w(files, dir, name, r) ==
    {f \in files : ~(f.dir = dir /\ f.name = name)} \cup {[dir |-> dir, name |-> name, by |-> r]}

\* the files of other runs that open(path, "w") by run r replaces
replaced(files, dir, name, r) ==
    {f \in files : f.dir = dir /\ f.name = name /\ f.by # r}

\* The outputs directory at the start: empty, and no run begun.
OutputsStart ==
    [sec |-> 0, pc |-> [r \in RunIds |-> "idle"], folder |-> [r \in RunIds |-> <<>>],
     dirs |-> {}, files |-> {}, lost |-> {}]

\* run_complete_workflow is called for run r (run_manual_analysis, or
\* run_analysis of the timer thread), and goes on to the analysis
BeginRun(r) ==
    /\ outputs.pc[r] = "idle"
    /\ outputs' = [outputs EXCEPT !.pc[r] = "analysed"]
    /\ UNCHANGED nonOutputs

\* Run r reaches save_analysis_to_file: the folder is named after the
\* current second, made with mkdir(exist_ok=True, parents=True), and
\* analysis.txt and raw_data.txt are opened for writing in it.
Persist(r) ==
    /\ outputs.pc[r] = "analysed"
    /\ LET dir == run_folder_at(outputs.sec)
           f1 == open_w(outputs.files, dir, "analysis.txt", r)
           f2 == open_w(f1, dir, "raw_data.txt", r)
       IN  outputs' = [outputs EXCEPT
                !.pc[r] = "saved",
                !.folder[r] = dir,
                !.dirs = @ \cup {dir},
                !.files = f2,
                !.lost = @ \cup replaced(outputs.files, dir, "analysis.txt", r)
                           \cup replaced(outputs.files, dir, "raw_data.txt", r)]
    /\ UNCHANGED nonOutputs

\* save_llm_input(run_folder=run_folder) of run r
SaveTranscript(r) ==
    /\ outputs.pc[r] = "saved"
    /\ outputs' = [outputs EXCEPT
            !.pc[r] = "done",
            !.files = open_w(@, outputs.folder[r], "llm_input.txt", r),
            !.lost = @ \cup replaced(outputs.files, outputs.folder[r], "llm_input.txt", r)]
    /\ UNCHANGED nonOutputs

\* the clock reaches the next second
SecondPasses ==
    /\ outputs.sec < MaxSecond
    /\ outputs' = [outputs EXCEPT !.sec = @ + 1]
    /\ UNCHANGED nonOutputs

InitOutputs ==
    /\ outputs = OutputsStart
    /\ run = NoRun
    /\ race = NoRace
    /\ mem = Defaults
    /\ disk = NoFile
    /\ thread = 0
    /\ loop = 0
    /\ stop_event = FALSE
    /\ th = NoThreads
    /\ loopSt = NoLoops
    /\ now = 0
    /\ ctl = [pc |-> "idle", op |-> "none", deadline |-> 0, calls |-> 0]
    /\ ret = NoCall
    /\ lastGood = Defaults
    /\ lastSaved = NoneSaved
    /\ fires = <<>>
    /\ runs = NoRuns
    /\ minuteLog = NoMinute

NextOutputs ==
    \/ \E r \in RunIds : BeginRun(r) \/ Persist(r) \/ SaveTranscript(r)
    \/ SecondPasses

SpecOutputs == InitOutputs /\ [][NextOutputs]_vars

-----------------------------------------------------------------------------
(* The check cycle: claims C1 and C2, checked under SpecCycle.             *)

\* C1: within one check cycle (one timer thread) no calendar minute sees two
\* orchestrator invocations.
C1_AtMostOneFiringPerMinute ==
    \A a, b \in DOMAIN fires :
        (a # b /\ fires[a].th = fires[b].th) => fires[a].min # fires[b].min

\* The cycle fired in the minute 07:00 and is polling again.
C1_Witness ==
    /\ Len(fires) = 1
    /\ th[fires[1].th].pc = "poll"
    /\ now >= fires[1].at + 2 * PollInterval
    /\ runs.completed = 1

\* C2: a trigger minute through which the scheduler was Running-Enabled
\* with boards configured, from before its first second to its end, with no
\* run in flight when it began, sees exactly one orchestrator invocation.
C2_ExactlyOneFiringPerTriggerMinute ==
    (minuteLog.done /\ minuteLog.ok) => minuteLog.n = 1

\* C11: with the stop signal clear, no exception of a poll or of a firing
\* ends the check cycle: the timer thread is alive, and a sleeping thread
\* polls again within the 60 seconds of the interval.
C11_ExceptionsDoNotEndCycle ==
    \A i \in ThreadIds :
        (th[i].pc # "unborn" /\ ~stop_event) =>
            /\ IsAlive(i)
            /\ th[i].pc \in {"sleep", "sleep_fired"} => th[i].wake <= now + PollInterval

\* The timezone name is unknown, every poll raised, and the thread polls
\* again two intervals after it was started.
C11_Witness ==
    /\ ~TzKnown(mem.timezone)
    /\ Truthy(mem.enabled)
    /\ th[1].pc = "poll"
    /\ now >= 2 * PollInterval

\* C14: while enabled is false the check cycle never calls the orchestrator
\* and starts no run, whatever the clock reads.
C14_DisabledTimerIsInert ==
    ~Truthy(mem.enabled) => (fires = <<>> /\ ~RunInFlight /\ runs = NoRuns)

\* The timer thread polled with enabled false while the clock read the
\* configured hour:minute, and sleeps.
C14_Witness ==
    /\ ~Truthy(mem.enabled)
    /\ th[1].pc = "sleep"
    /\ TimeMatches(th[1].wake - PollInterval)

\* C15: every scheduled firing that did not end in a successful run (a
\* missing credential, a board mapping that parses to empty, an error in a
\* step) had an error notification attempted.
C15_FailedFiringNotifies == runs.failed + runs.skipped <= runs.notified

-----------------------------------------------------------------------------
(* The lifecycle: claims C3 to C5, checked under Spec.                     *)

\* C3: no scheduled run is cut short: a run in flight when stop() is called
\* goes on to complete or fail and to close the forum client.
C3_StopDoesNotInterruptRun == runs.abandoned = 0

\* C4: at most one timer thread is alive, at most one scheduled run is in
\* flight, and a start() call made while the timer thread is alive leaves
\* the threads, the stop signal, the five fields and the file as they were.
C4_SingleTimerThread ==
    /\ Cardinality({i \in ThreadIds : IsAlive(i)}) <= 1
    /\ Cardinality({i \in ThreadIds : th[i].pc \in RunPcs}) <= 1
    /\ (ret.op = "start" /\ ret.alive0) => (ret.thrSame /\ ret.memSame /\ ret.diskSame)

\* start() was called during a scheduled run, which is still in flight.
C4_Witness ==
    /\ ret.op = "start"
    /\ ret.alive0
    /\ thread # 0
    /\ th[thread].pc \in RunPcs

\* C5: when restart() has returned and enabled is true, the timer thread is
\* alive and the stop signal is clear.
C5_RestartLeavesTimerActive ==
    (ret.op = "restart" /\ ~ret.raised /\ Truthy(mem.enabled))
        => (thread_is_alive /\ ~stop_event)

-----------------------------------------------------------------------------
(* The persisted record: claims C6 to C10, checked under SpecStore.        *)

\* The file holds a JSON object whose "enabled" is true.
RecordSaysEnabled(d) ==
    /\ d.exists
    /\ LET p == JsonLoad(d.toks) IN
       p.ok /\ p.v.t = "dict" /\ Get(p.v.d, "enabled", PyBool(FALSE)) = PyBool(TRUE)

\* The file exists and json.load does not yield a JSON object from it.
Malformed(d) ==
    /\ d.exists
    /\ LET p == JsonLoad(d.toks) IN ~p.ok \/ p.v.t # "dict"

\* C6: after a process restart, initialize_scheduler has started the timer
\* thread exactly when the persisted record says enabled = true; after a
\* successful save with enabled = true the thread is alive and the five
\* fields equal the saved values; after a save with enabled = false, or with
\* no file, no thread exists.
C6_ScheduleSurvivesRestart ==
    ret.op = "init" =>
        /\ thread_is_alive <=> RecordSaysEnabled(disk)
        /\ (lastSaved.some /\ lastSaved.rec.enabled = PyBool(TRUE))
               => (thread_is_alive /\ mem = lastSaved.rec)
        /\ ((lastSaved.some /\ lastSaved.rec.enabled = PyBool(FALSE)) \/ ~disk.exists)
               => thread = 0

C6_Witness ==
    /\ ret.op = "init"
    /\ lastSaved.some
    /\ lastSaved.rec.enabled = PyBool(TRUE)
    /\ lastSaved.rec.hour = PyInt(23)
    /\ thread_is_alive
    /\ mem = lastSaved.rec

\* C7: load_config after a successful save_config(s), on the same instance or
\* on a fresh one, returns the record s and leaves the five fields equal to s.
C7_SaveThenLoadFixedPoint ==
    (ret.op \in {"load", "init"} /\ lastSaved.some) =>
        /\ ret.ok
        /\ ret.val = PyDict(<<[k |-> "enabled", v |-> lastSaved.rec.enabled],
                              [k |-> "hour", v |-> lastSaved.rec.hour],
                              [k |-> "minute", v |-> lastSaved.rec.minute],
                              [k |-> "timezone", v |-> lastSaved.rec.timezone],
                              [k |-> "config", v |-> lastSaved.rec.config]>>)
        /\ mem = lastSaved.rec

C7_Witness ==
    /\ ret.op = "init"
    /\ lastSaved.some
    /\ lastSaved.rec = Sched(FALSE, 7, 0, "Etc/UTC", ConfigOf("LocalLLaMA:10", 10))
    /\ mem = lastSaved.rec
    /\ ret.val = DataOf(mem)

\* C8: after a save_config call the file holds the complete previous record
\* or the complete new one, and a failed save leaves the file unchanged.
C8_SaveOverwritesAtomically ==
    ret.op = "save" =>
        /\ ret.diskSame \/ disk = FileOf(JsonDump(DataOf(ret.args)))
        /\ ~ret.ok => ret.diskSame

\* C9: a save_config that returns False leaves the five fields as they were,
\* and the five fields always equal the last successfully saved or loaded
\* record (the constructor defaults when there is none).
C9_MemoryIsLastGoodRecord ==
    /\ (ret.op = "save" /\ ~ret.ok) => ret.memSame
    /\ mem = lastGood

\* C10: load_config on a missing file, or on a file that does not hold a JSON
\* object, does not raise, returns {} and leaves the five fields untouched.
C10_LoadOfMissingOrMalformed ==
    (ret.op = "load" /\ (~disk.exists \/ Malformed(disk))) =>
        /\ ~ret.raised
        /\ ret.val = PyDict(<<>>)
        /\ ret.memSame

C10_Witness ==
    /\ ret.op = "load"
    /\ Malformed(disk)
    /\ disk.toks # <<>>
    /\ mem # Defaults
    /\ ret.val = PyDict(<<>>)

-----------------------------------------------------------------------------
(* The scheduled call of the orchestrator: claims C12 and C13, checked     *)
(* under SpecStore.                                                        *)

\* Every field stored in cfg is in args with its stored value: the board
\* mapping parsed, the two counts as ints, the others as they are.
Forwarded(args, cfg) ==
    /\ args.subreddit_config = BoardsOf(Get(cfg.d, "subreddit_config", PyStr("")).s)
    /\ \A j \in DOMAIN cfg.d :
        LET k == cfg.d[j].k
            v == cfg.d[j].v
        IN  CASE k \in {"time_filter", "model", "system_prompt", "user_prompt"} ->
                    args[k] = v
              [] k \in {"top_comments", "replies_per_comment"} ->
                    EqInt(v, args[k])
              [] k \in {"subreddit_config", "send_to_telegram"} -> TRUE
              [] OTHER -> Get(args.extra, k, PyStr("Mars/Phobos")) = v

C13_ScheduledRunsAlwaysNotify ==
    \A k \in DOMAIN fires : fires[k].args.send_to_telegram

\* A firing made while the loaded configuration stores the flag as false.
C13_Witness ==
    /\ ret.op = "init"
    /\ fires # <<>>
    /\ Get(mem.config.d, "send_to_telegram", PyBool(TRUE)) = PyBool(FALSE)

-----------------------------------------------------------------------------
(* The orchestrator run: claims C16 to C20, checked under SpecRun.         *)

\* the run of the v3 orchestrator has returned
Returned3 == run.pc # "none" /\ run.v = 3 /\ run.ret # <<>>

\* C16: run_complete_workflow of News_agent_v3 ends every call with a return
\* value that is either an error message with all four other slots None, or
\* paths only, and paths only after an analysis of at least 100 characters
\* and after analysis.txt and raw_data.txt were written.
C16_BundleOrError ==
    /\ (run.pc = "done" /\ run.v = 3) => (run.ret # <<>> /\ ~run.raised)
    /\ Returned3 =>
        \/ /\ run.ret[1].k = "error"
           /\ \A j \in 2..5 : run.ret[j] = NoPath
        \/ /\ \A j \in 1..5 : run.ret[j].k # "error"
           /\ run.ret[1].k = "path" /\ run.ret[2].k = "path"
           /\ run.analysed /\ run.len >= MinAnalysis
           /\ {PathIn(RunDir, "analysis.txt"), PathIn(RunDir, "raw_data.txt")}
                  \subseteq run.files

\* a v3 run that failed after it wrote files has returned the error alone
C16_Witness ==
    /\ Returned3 /\ run.pc = "done"
    /\ run.ret[1].k = "error"
    /\ PathIn(RunDir, "analysis.txt") \in run.files

\* no board of the mapping sc has a post link: each is empty or failing
NoLinkIn(sc) == isinstance_dict(sc) /\ \A j \in 1..Len(sc) : sc[j] \in {"none", "fail"}

\* C17: a v3 run whose boards give no post link at all never calls the
\* analysis and never creates a run directory, and it returns an error.
C17_NoLinksAbortsBeforeAnalysis ==
    (run.pc # "none" /\ run.v = 3 /\ NoLinkIn(run.subreddit_config)) =>
        /\ "analysis" \notin run.calls
        /\ run.dirs = {} /\ run.files = {}
        /\ "forum" \in run.calls => run.pc \in {"except", "close", "done"}
        /\ run.pc = "done" => (run.ret # <<>> /\ run.ret[1].k = "error")

\* a run over one empty and one failing board asked the forum and is over
C17_Witness ==
    /\ run.pc = "done" /\ run.v = 3
    /\ run.subreddit_config = <<"none", "fail">>
    /\ "forum" \in run.calls
    /\ run.ret[1] = ErrorMsg("No posts found from any subreddit")

\* C18: when the analysis returns a text of fewer than 100 characters (the
\* empty text included), the orchestrator, v1 or v3, creates no directory,
\* writes no file, runs no narration and no result notification, and
\* returns an error.
C18_ShortAnalysisIsRejected ==
    (run.pc # "none" /\ run.len \in 0..(MinAnalysis - 1)) =>
        /\ run.dirs = {} /\ run.files = {}
        /\ run.calls \cap {"tts", "notify_result"} = {}
        /\ run.pc = "done" => (run.ret # <<>> /\ run.ret[1].k = "error")

\* the descriptive errors of the validation
ValidationErrors ==
    {ErrorMsg("Invalid subreddit_config type"), ErrorMsg("No subreddits configured"),
     ErrorMsg("Missing required environment variables")}

\* C19: a v3 run with an empty board mapping or with one of the four
\* required credentials missing creates no client, makes no forum,
\* newsletter, analysis, narration or notification call, creates no
\* directory and writes no file, whatever the notification flag is, and
\* returns a validation error.
C19_ValidationPrecedesNetwork ==
    (/\ run.pc # "none" /\ run.v = 3
     /\ run.subreddit_config = <<>> \/ run.env # RequiredVars) =>
        /\ run.clients = "none"
        /\ run.calls = {}
        /\ run.dirs = {} /\ run.files = {}
        /\ run.pc \in {"validate", "done"}
        /\ run.pc = "done" => (run.ret # <<>> /\ run.ret[1] \in ValidationErrors)

\* a run over a board with posts, with the notification channel missing and
\* the notification flag off, has returned the error
C19_Witness ==
    /\ run.pc = "done" /\ run.v = 3
    /\ run.subreddit_config = <<"some">>
    /\ run.env = RequiredVars \ {"TELEGRAM_CHAT_ID"}
    /\ ~run.send_to_telegram
    /\ run.ret[1] = ErrorMsg("Missing required environment variables")

\* C20: every path a successful v3 run returns is a file the run wrote in
\* its run directory, the only directory the run created, and analysis.txt
\* and raw_data.txt are among the files of that directory.
C20_ArtifactsInOneRunDirectory ==
    (Returned3 /\ run.ret[1].k = "path") =>
        /\ run.run_folder = RunDir /\ run.dirs = {run.run_folder}
        /\ \A j \in 1..5 :
            run.ret[j] # NoPath =>
                /\ run.ret[j].k = "path"
                /\ run.ret[j].dir = run.run_folder
                /\ run.ret[j] \in run.files
        /\ run.ret[1].name = "analysis.txt" /\ run.ret[2].name = "raw_data.txt"
        /\ run.ret[5].name = "llm_input.txt"
        /\ \A f \in run.files : f.dir = run.run_folder

\* a successful run with newsletters and narration has returned five paths
C20_Witness ==
    /\ Returned3 /\ run.pc = "done"
    /\ \A j \in 1..5 : run.ret[j].k = "path"
    /\ run.ret[3].name = "audio.wav" /\ run.ret[4].name = "emails.json"

\* C22: with the notification flag set, a v3 run that reached the result
\* notification attempted the message, the document and (when there is an
\* audio file) the audio, in that order, whichever of them failed, and
\* returned the artifact paths it has, as a run whose sends all succeed.
C22_SendFailuresAreIndependent ==
    (Returned3 /\ run.send_to_telegram /\ "notify_result" \in run.calls) =>
        /\ Len(run.sends) = Len(SendOrder(run.audio_file))
        /\ \A j \in 1..Len(run.sends) : run.sends[j].what = SendOrder(run.audio_file)[j]
        /\ run.ret = <<run.analysis_file, run.raw_data_file, run.audio_file,
                       run.email_data_file, run.llm_input_file>>
        /\ run.ret[1].k = "path" /\ run.ret[2].k = "path" /\ run.ret[5].k = "path"

\* the message send failed, the document and the audio were sent, and the
\* run has returned
C22_Witness ==
    /\ Returned3 /\ run.pc = "done"
    /\ run.sends = <<[what |-> "message", ok |-> FALSE], [what |-> "document", ok |-> TRUE],
                     [what |-> "audio", ok |-> TRUE]>>
    /\ run.ret[1] = PathIn(RunDir, "analysis.txt")

\* C23: when the write of analysis.txt or of raw_data.txt fails in a v3 run,
\* the run ends in an error, reported to the notification channel when the
\* flag is set, and neither llm_input.txt nor emails.json is written, nor
\* the narration or the result notification called.
C23_FailedWriteStopsTheRun ==
    (run.pc # "none" /\ run.v = 3 /\ run.io \in {"analysis", "raw"}) =>
        /\ run.pc \in {"except", "close", "done"}
        /\ run.calls \cap {"tts", "notify_result"} = {}
        /\ run.files \subseteq {PathIn(RunDir, "analysis.txt")}
        /\ run.llm_input_file = NoPath /\ run.email_data_file = NoPath
        /\ run.pc = "done" =>
            /\ run.ret # <<>> /\ run.ret[1] = ErrorMsg("Failed to save analysis files")
            /\ run.send_to_telegram => "notify_error" \in run.calls

\* analysis.txt was written, raw_data.txt was not, newsletters were found and
\* narration was asked for, and the run has returned
C23_Witness ==
    /\ run.pc = "done" /\ run.v = 3 /\ run.io = "raw"
    /\ run.emails /\ run.generate_tts /\ run.send_to_telegram
    /\ run.files = {PathIn(RunDir, "analysis.txt")}

\* C24: in a v3 run that found at least one link, no board or post failure
\* aborts the fetch, every failing board and every post whose comments
\* failed has its error text in the exported forum data, and the posts of
\* the boards after a failure are in the exported data, in the order of the
\* mapping.
C24_FetchFailuresAreInlineMarkers ==
    (/\ run.pc # "none" /\ run.v = 3 /\ "forum" \in run.calls
     /\ \E j \in 1..Len(run.subreddit_config) :
            run.subreddit_config[j] \in {"some", "some_fail"}) =>
        /\ run.error \notin {"No posts found from any subreddit", "No posts found"}
        /\ \A j \in 1..Len(run.subreddit_config) :
            /\ run.subreddit_config[j] \in {"fail", "some_fail"} =>
                    \E k \in 1..Len(run.raw_reddit_data) :
                        run.raw_reddit_data[k] = [board |-> j, text |-> "error"]
            /\ run.subreddit_config[j] = "some" =>
                    \E k \in 1..Len(run.raw_reddit_data) :
                        run.raw_reddit_data[k] = [board |-> j, text |-> "comments"]
        /\ \A k \in 2..Len(run.raw_reddit_data) :
                run.raw_reddit_data[k - 1].board < run.raw_reddit_data[k].board

-----------------------------------------------------------------------------
(* Overlapping runs: claim C21, checked under SpecOutputs.                 *)

\* C21: any two runs that reached the persist step have different run
\* directories, and no run has replaced a file another run wrote.
C21_RunDirectoriesAreDistinct ==
    /\ \A r1, r2 \in RunIds :
        (r1 # r2 /\ outputs.folder[r1] # <<>> /\ outputs.folder[r2] # <<>>) =>
            outputs.folder[r1] # outputs.folder[r2]
    /\ outputs.lost = {}

-----------------------------------------------------------------------------
(* The controller and the check cycle together: claims C25, C27 and C30,   *)
(* checked under Spec.                                                     *)

\* C25: whatever start, stop, restart and enable_schedule calls are made, no
\* two orchestrator invocations, of the same or of different timer threads,
\* begin in the same calendar minute.
C25_OneFiringPerMinuteAcrossRestarts ==
    \A j, k \in DOMAIN fires :
        j # k => fires[j].min # fires[k].min

\* C27: no stop() or restart() call ends in an exception, and a stop() that
\* told an event loop to stop told the loop of the timer thread that is alive.
C27_StopNeverRaises ==
    /\ ret.op \in {"stop", "restart"} => ~ret.raised
    /\ (ctl.pc = "joining" /\ loop # 0) => loop = thread

-----------------------------------------------------------------------------
(* The persisted record: claim C29, checked under SpecStore.               *)

\* C29: a load_config call, made directly or by initialize_scheduler, either
\* returns the record on disk with the five fields assigned from it, or
\* returns {} with the five fields as they were before the call.
C29_LoadIsAllOrNothing ==
    ret.op \in {"load", "init"} =>
        \/ ret.val # PyDict(<<>>) /\ mem = FieldsOf(ret.val.d)
        \/ ret.val = PyDict(<<>>) /\ ret.memSame

-----------------------------------------------------------------------------
(* stop() and the check cycle: claim C30, checked under SpecStop.          *)

\* the last call the controlling thread completed is a stop() that returned
StopReturned == ctl.pc = "idle" /\ ret.op = "stop" /\ ret.ok

\* C30: from the return of stop() until the next call of the controlling
\* thread, no timer thread begins an orchestrator invocation.
C30_NoFiringAfterStop ==
    [][StopReturned => fires' = fires]_vars

\* stop() returned from a join that timed out: the timer thread, which had
\* fired, is still alive in the file writes of its run
C30_Witness ==
    /\ StopReturned /\ ret.alive0
    /\ Len(fires) = 1
    /\ thread_is_alive /\ th[thread].pc = "wf_save"
    /\ stop_event

-----------------------------------------------------------------------------
(* SpecDisable: app.disable_schedule, with the saves, process restarts and *)
(* the timer thread's steps around it. The clock does not advance.         *)

\* The keyword arguments of disable_schedule's save_config call, from the
\* dict load_config returned: enabled=False and config.get(key, default)
\* for the other four.
disable_args(data) ==
    [enabled |-> PyBool(FALSE),
     hour |-> Get(data.d, "hour", PyInt(9)),
     minute |-> Get(data.d, "minute", PyInt(0)),
     timezone |-> Get(data.d, "timezone", PyStr("Etc/UTC")),
     config |-> Get(data.d, "config", PyDict(<<>>))]

\* app.disable_schedule up to the join inside stop(): when the file exists,
\* load_config() and save_config(enabled=False, ...) with what was loaded,
\* the result of the save not looked at; then scheduler.stop().
CallDisable ==
    /\ Idle
    /\ \E fail \in Fails :
        LET l == load_config(mem, disk)
            args == disable_args(l.val)
            r == IF disk.exists
                 THEN save_config(l.mem, disk, args, fail)
                 ELSE [mem |-> mem, disk |-> disk, ok |-> FALSE]
        IN
        /\ mem' = r.mem
        /\ disk' = r.disk
        /\ lastGood' = IF ~disk.exists THEN lastGood
                       ELSE IF r.ok THEN args
                       ELSE IF l.ok THEN FieldsOf(l.val.d)
                       ELSE lastGood
        /\ lastSaved' = IF disk.exists THEN SavedAfter(disk, r, args) ELSE lastSaved
    /\ Stopping("disable")
    /\ UNCHANGED <<run, outputs, race, loop, now, fires, runs, minuteLog>>

\* save_config called while no other call is under way
SaveWhileIdle == Idle /\ SaveConfig

NextDisable ==
    \/ \E i \in ThreadIds : Boot(i) \/ LoopTest(i) \/ Poll(i) \/ Interrupt(i)
    \/ SaveWhileIdle
    \/ ProcessRestart
    \/ CallDisable
    \/ JoinReturn

SpecDisable == InitStore /\ [][NextDisable]_vars

-----------------------------------------------------------------------------
(* disable_schedule: claim C28, checked under SpecDisable.                 *)

\* The schedule before a disable_schedule call: the fields of the record in
\* the file where the file holds a JSON object, the in-memory fields otherwise.
PriorSchedule ==
    LET p == JsonLoad(disk.toks) IN
    IF disk.exists /\ p.ok /\ p.v.t = "dict"
    THEN [hour |-> Get(p.v.d, "hour", mem.hour),
          minute |-> Get(p.v.d, "minute", mem.minute),
          timezone |-> Get(p.v.d, "timezone", mem.timezone),
          config |-> Get(p.v.d, "config", mem.config)]
    ELSE [hour |-> mem.hour, minute |-> mem.minute,
          timezone |-> mem.timezone, config |-> mem.config]

\* The file d holds the record: enabled false, the other four fields as in s.
DisabledRecord(d, s) ==
    /\ d.exists
    /\ LET p == JsonLoad(d.toks) IN
       /\ p.ok
       /\ p.v.t = "dict"
       /\ Get(p.v.d, "enabled", PyNone) = PyBool(FALSE)
       /\ Get(p.v.d, "hour", PyNone) = s.hour
       /\ Get(p.v.d, "minute", PyNone) = s.minute
       /\ Get(p.v.d, "timezone", PyNone) = s.timezone
       /\ Get(p.v.d, "config", PyNone) = s.config

\* The step in which disable_schedule loads, saves and calls stop()
DisableStep == ctl'.calls = ctl.calls + 1

\* disable_schedule has returned
DisableReturned == ctl.pc = "idle" /\ ret.op = "disable"

\* C28: disable_schedule leaves the persisted record with enabled = false and
\* hour, minute, timezone and config as they were, whatever the file held
\* before (a record, nothing, malformed content) and whether or not the save
\* succeeds; a process restart after it does not start the timer; and once it
\* has returned no timer thread is alive and nothing fires.
C28_DisableLeavesDisabledRecord ==
    [][/\ DisableStep =>
            /\ DisabledRecord(disk', PriorSchedule)
            /\ ~init_starts(load_config(Defaults, disk'))
       /\ DisableReturned =>
            /\ ~thread_is_alive
            /\ fires' = fires \/ fires' = <<>>]_vars

-----------------------------------------------------------------------------
(* SpecRace: save_config or load_config on the controlling thread while    *)
(* the timer thread makes a poll of scheduler_loop. No lock is taken by    *)
(* either, so the threads interleave between any two statements; each      *)
(* assignment and each read of a self.<field> attribute is one step.       *)

\* The records saved during the race.
RaceRecords ==
    {Sched(TRUE, 7, 30, "Etc/UTC", ConfigOf("LocalLLaMA:10", 10)),
     Sched(TRUE, 8, 0, "Europe/Warsaw", ConfigOf("LocalLLaMA:10", 5)),
     Sched(FALSE, 9, 0, "Etc/UTC", PyDict(<<>>))}

\* What datetime.now(tz) may read during a poll: its hour and minute
RaceClocks == {[hour |-> h, minute |-> m] : h \in {7, 8}, m \in {0, 30}}

\* The order of the five assignments in save_config and in load_config
FieldOrder == <<"enabled", "hour", "minute", "timezone", "config">>

NothingSeen ==
    [enabled |-> PyNone, timezone |-> PyNone, hour |-> PyNone, minute |-> PyNone,
     config |-> PyNone, config_args |-> PyNone]

\* No call on the controlling thread; the poll at its first statement.
RaceStart ==
    [w |-> [pc |-> 0, op |-> "none", rec |-> Defaults],
     r |-> [pc |-> "enabled", seen |-> NothingSeen, clock |-> [hour |-> 0, minute |-> 0]]]

raceOnly == <<disk, thread, loop, stop_event, th, loopSt, now, ctl, ret, lastGood,
              lastSaved, runs, minuteLog, run, outputs>>

\* save_config up to its first assignment: the record is written to the file
BeginSave ==
    /\ race.w.pc = 0
    /\ \E rec \in RaceRecords :
        /\ disk' = save_config(mem, disk, rec, NoFail).disk
        /\ race' = [race EXCEPT !.w = [pc |-> 1, op |-> "save", rec |-> rec]]
    /\ UNCHANGED <<mem, fires, thread, loop, stop_event, th, loopSt, now, ctl, ret, lastGood,
                   lastSaved, runs, minuteLog, run, outputs>>

\* load_config up to its first assignment: the file is parsed
BeginLoad ==
    /\ race.w.pc = 0
    /\ load_config(mem, disk).ok
    /\ race' = [race EXCEPT !.w = [pc |-> 1, op |-> "load",
                                   rec |-> FieldsOf(load_config(mem, disk).val.d)]]
    /\ UNCHANGED <<mem, fires>>
    /\ UNCHANGED raceOnly

\* One `self.<field> = ...` of save_config or load_config; after the fifth
\* the call returns
Assign ==
    /\ race.w.pc \in 1..5
    /\ mem' = [mem EXCEPT ![FieldOrder[race.w.pc]] = race.w.rec[FieldOrder[race.w.pc]]]
    /\ race' = [race EXCEPT !.w.pc = IF @ = 5 THEN 0 ELSE @ + 1]
    /\ UNCHANGED fires
    /\ UNCHANGED raceOnly

\* `if self.enabled:`
ReadEnabled ==
    /\ race.r.pc = "enabled"
    /\ race' = [race EXCEPT !.r.seen.enabled = mem.enabled,
                            !.r.pc = IF Truthy(mem.enabled) THEN "timezone" ELSE "sleep"]
    /\ UNCHANGED <<mem, fires>>
    /\ UNCHANGED raceOnly

\* `tz = zoneinfo.ZoneInfo(self.timezone)` and `now = datetime.now(tz)`
ReadTimezone ==
    /\ race.r.pc = "timezone"
    /\ \E c \in RaceClocks :
        race' = [race EXCEPT !.r.seen.timezone = mem.timezone, !.r.clock = c,
                             !.r.pc = IF TzKnown(mem.timezone) THEN "hour" ELSE "sleep"]
    /\ UNCHANGED <<mem, fires>>
    /\ UNCHANGED raceOnly

\* `now.hour == self.hour`, the left operand of the `and`
ReadHour ==
    /\ race.r.pc = "hour"
    /\ race' = [race EXCEPT !.r.seen.hour = mem.hour,
                            !.r.pc = IF EqInt(mem.hour, race.r.clock.hour)
                                     THEN "minute" ELSE "sleep"]
    /\ UNCHANGED <<mem, fires>>
    /\ UNCHANGED raceOnly

\* `now.minute == self.minute`, evaluated when the hours were equal
ReadMinute ==
    /\ race.r.pc = "minute"
    /\ race' = [race EXCEPT !.r.seen.minute = mem.minute,
                            !.r.pc = IF EqInt(mem.minute, race.r.clock.minute)
                                     THEN "config" ELSE "sleep"]
    /\ UNCHANGED <<mem, fires>>
    /\ UNCHANGED raceOnly

\* run_analysis's first `self.config.get`: the boards; without boards it returns
ReadConfig ==
    /\ race.r.pc = "config"
    /\ race' = [race EXCEPT !.r.seen.config = mem.config,
                            !.r.pc = IF run_analysis_raises(mem.config) \/ ~BoardsConfigured
                                     THEN "sleep" ELSE "args"]
    /\ UNCHANGED <<mem, fires>>
    /\ UNCHANGED raceOnly

\* The `self.config.get` calls in the arguments of run_complete_workflow,
\* taken as one step, and the call: the firing
ReadArgs ==
    /\ race.r.pc = "args"
    /\ ~run_analysis_raises(mem.config)
    /\ race' = [race EXCEPT !.r.seen.config_args = mem.config, !.r.pc = "fired"]
    /\ fires' = <<[th |-> thread, min |-> 0, at |-> now,
                   args |-> [run_analysis_args(mem.config) EXCEPT
                               !.subreddit_config =
                                   run_analysis_args(race.r.seen.config).subreddit_config]]>>
    /\ UNCHANGED mem
    /\ UNCHANGED raceOnly

\* The poll's `await asyncio.sleep(60)` ends and the next poll begins
NextPoll ==
    /\ race.r.pc \in {"sleep", "fired"}
    /\ race' = [race EXCEPT !.r = RaceStart.r]
    /\ UNCHANGED <<mem, fires>>
    /\ UNCHANGED raceOnly

\* The timer thread is in its check cycle on a schedule that was saved.
InitRace ==
    /\ race = RaceStart
    /\ mem \in RaceRecords
    /\ disk = FileOf(JsonDump(DataOf(mem)))
    /\ thread = 1
    /\ loop = 1
    /\ stop_event = FALSE
    /\ th = [NoThreads EXCEPT ![1] = [pc |-> "poll", wake |-> 0, res |-> "none"]]
    /\ loopSt = [NoLoops EXCEPT ![1] = "open"]
    /\ now = 0
    /\ ctl = [pc |-> "idle", op |-> "none", deadline |-> 0, calls |-> 0]
    /\ ret = NoCall
    /\ lastGood = mem
    /\ lastSaved = [some |-> TRUE, rec |-> mem]
    /\ fires = <<>>
    /\ runs = NoRuns
    /\ minuteLog = NoMinute
    /\ run = NoRun
    /\ outputs = NoOutputs

NextRace ==
    \/ BeginSave
    \/ BeginLoad
    \/ Assign
    \/ ReadEnabled
    \/ ReadTimezone
    \/ ReadHour
    \/ ReadMinute
    \/ ReadConfig
    \/ ReadArgs
    \/ NextPoll

SpecRace == InitRace /\ [][NextRace]_vars

-----------------------------------------------------------------------------
(* The schedule a firing uses: claim C26, checked under SpecRace.          *)

\* What the poll read is the record R, field by field.
SeenIs(R) ==
    /\ race.r.seen.enabled = R.enabled
    /\ race.r.seen.timezone = R.timezone
    /\ race.r.seen.hour = R.hour
    /\ race.r.seen.minute = R.minute
    /\ race.r.seen.config = R.config
    /\ race.r.seen.config_args = R.config

\* C26: a scheduled firing uses one snapshot of the schedule: the enabled
\* flag, the timezone, the hour and the minute that matched and the
\* configuration handed to the orchestrator all come from one saved or loaded
\* record, also when save_config or load_config runs during the poll.
C26_FiringUsesOneRecord ==
    race.r.pc = "fired" => \E R \in RaceRecords : SeenIs(R)

====
